---------------------------- MODULE Spec2Model ----------------------------
(***************************************************************************)
(* Strategy-signal and risk-evaluation engine of the crypto trading app:   *)
(* the RiskManager (src/unnamed/part_000), the four strategy evaluators    *)
(* (src/algorithms/SmartStakingBot.ts holds SmartStakingBot, CCIMarketBot  *)
(* and MomentumTradingBot; src/algorithms/DCATradingBot.ts) and the        *)
(* backtest harness (src/algorithms/AlgorithmTester.ts).                   *)
(*                                                                         *)
(* Numbers.  The program computes in IEEE doubles.  The model computes in  *)
(* integers: a comparison of two quotients is cross-multiplied, so it is   *)
(* exact.  The position-size branch of validateSignal, whose quotient is   *)
(* returned to the caller, is computed in binary64 with the rounding of    *)
(* every operation.  A value the program gets as NaN (a missing field,     *)
(* 0/0) is tracked by a separate "...IsNaN" predicate, and every           *)
(* comparison with NaN is FALSE as in JavaScript.                          *)
(*                                                                         *)
(* Each component has its own specification (SpecRisk, SpecStaking, ...)   *)
(* over its own variables; the other components' variables stay at their   *)
(* constructor values.                                                     *)
(***************************************************************************)
EXTENDS Integers, Sequences, FiniteSets, TLC

VARIABLES
  \* ---- RiskManager (src/unnamed/part_000) ----
  riskLimits,          \* RiskManager.riskLimits
  performanceHistory,  \* RiskManager.performanceHistory, the portfolio values
  marketHistoryLen,    \* length of RiskManager.marketHistory (write-only data)
  validation,          \* the last validateSignal call: its inputs' digest and its result
  \* ---- wall clock ----
  now,                 \* Date.now(), in minutes
  \* ---- MomentumTradingBot (src/algorithms/SmartStakingBot.ts) ----
  momentum,            \* [positions, historyLen, lastRebalance]
  momentumTrades,      \* the number of updatePosition calls made so far
  momentumCall,        \* the last analyzeMarket call: what it was given and returned
  \* ---- DCATradingBot (src/algorithms/DCATradingBot.ts) ----
  dca,                 \* [positions, volumes, historyLen]
  dcaTrades,           \* the number of updatePosition calls made so far
  dcaCall,             \* the last analyzeMarket call
  dcaFeed,             \* the observations fed so far and the signals they drew
  \* ---- SmartStakingBot (src/algorithms/SmartStakingBot.ts) ----
  staking,             \* [allocation, opportunities, positions, lastOptimization]
  stakingTrades,       \* the number of updatePosition calls made so far
  stakingCall,         \* the last analyzeMarket call
  \* ---- CCIMarketBot (src/algorithms/SmartStakingBot.ts) ----
  cci,                 \* [positions, historyLen]
  \* ---- one bot's position ledger driven by updatePosition calls ----
  ledger,              \* [bot, count, log]: the driven bot and its last two trades
  \* ---- AlgorithmTester (src/algorithms/AlgorithmTester.ts) ----
  harness,             \* [scenarios, results, thrownAt, edgeCaseResults, status]: one
                       \* runAlgorithmTests call
  \* ---- one strategy evaluator from its construction on ----
  instance,            \* [constructed, algorithm, config, analyzed, signals]
  \* ---- one evaluateTestResult call ----
  evaluation,          \* [scenario, performance, riskMetrics, done, result]
  \* ---- the five bounded histories, one symbol each ----
  histories,           \* [momentum, cci, dca, performance, market]: each [items, arrived]
  \* ---- CCIMarketBot with its price history (src/algorithms/SmartStakingBot.ts) ----
  cciBot               \* [positions, history, calls, trades, call]

riskVars == <<riskLimits, performanceHistory, marketHistoryLen, validation>>

momentumVars == <<momentum, momentumTrades, momentumCall>>

dcaVars == <<dca, dcaTrades, dcaCall, dcaFeed>>

stakingVars == <<staking, stakingTrades, stakingCall>>

ledgerVars == <<cci, ledger>>

harnessVars == <<harness, instance, evaluation, histories, cciBot>>

vars == <<riskVars, now, momentumVars, dcaVars, stakingVars, ledgerVars, harnessVars>>

\* What the actions of one component leave alone
exceptRisk == <<now, momentumVars, dcaVars, stakingVars, ledgerVars, harnessVars>>

exceptMomentum == <<riskVars, dcaVars, stakingVars, ledgerVars, harnessVars>>

exceptDca == <<riskVars, momentumVars, stakingVars, ledgerVars, harnessVars>>

exceptStaking == <<riskVars, momentumVars, dcaVars, ledgerVars, harnessVars>>

----------------------------------------------------------------------------
(* Generic helpers *)

Min2(a, b) == IF a <= b THEN a ELSE b

Max2(a, b) == IF a >= b THEN a ELSE b

SetMin(S) == CHOOSE x \in S : \A y \in S : x <= y

SetMax(S) == CHOOSE x \in S : \A y \in S : x >= y

RECURSIVE SumSeq(_)
SumSeq(s) == IF s = <<>> THEN 0 ELSE Head(s) + SumSeq(Tail(s))

\* Array.prototype.slice(-n): the last n elements (all of them when fewer)
LastN(s, n) == IF Len(s) <= n THEN s ELSE SubSeq(s, Len(s) - n + 1, Len(s))

\* All sequences over S of length lo..hi
SeqsOf(S, lo, hi) == UNION { [1..n -> S] : n \in lo..hi }

NoSymbol == "none"

RECURSIVE Gcd(_, _)
Gcd(a, b) == IF b = 0 THEN a ELSE Gcd(b, a % b)

Abs(x) == IF x < 0 THEN 0 - x ELSE x

RECURSIVE ConcatAll(_)
ConcatAll(ss) == IF ss = <<>> THEN <<>> ELSE Head(ss) \o ConcatAll(Tail(ss))

\* A JavaScript Map keyed by symbol, in insertion order, as a sequence of records
MapIndex(m, key) ==
  LET S == { i \in DOMAIN m : m[i].symbol = key }
  IN IF S = {} THEN 0 ELSE SetMin(S)

MapHas(m, key) == MapIndex(m, key) # 0

MapGet(m, key) == m[MapIndex(m, key)]

MapSet(m, rec) ==
  IF MapHas(m, rec.symbol) THEN [m EXCEPT ![MapIndex(m, rec.symbol)] = rec]
  ELSE Append(m, rec)

MapDelete(m, key) == SelectSeq(m, LAMBDA r : r.symbol # key)

\* Array.prototype.sort((a, b) => b.score - a.score): stable, highest score first
RECURSIVE InsertByScore(_, _)
InsertByScore(sorted, x) ==
  IF sorted = <<>> THEN <<x>>
  ELSE IF Head(sorted).score >= x.score
    THEN <<Head(sorted)>> \o InsertByScore(Tail(sorted), x)
  ELSE <<x>> \o sorted

RECURSIVE SortByScore(_)
SortByScore(s) ==
  IF s = <<>> THEN <<>>
  ELSE InsertByScore(SortByScore(SubSeq(s, 1, Len(s) - 1)), s[Len(s)])

\* createBotInstance: the config every bot of the harness gets
HarnessConfig ==
  [allocation |-> 10000, stopLoss |-> 5, takeProfit |-> 15, maxPositions |-> 5,
   enabledAssets |-> <<"BTC", "ETH", "SOL", "ADA", "DOT">>]

Range(s) == { s[i] : i \in DOMAIN s }

\* marketData.find(d => d.symbol === sym): index of the first match, 0 for undefined
Find(marketData, sym) ==
  LET S == { i \in DOMAIN marketData : marketData[i].symbol = sym }
  IN IF S = {} THEN 0 ELSE SetMin(S)

----------------------------------------------------------------------------
(* JavaScript numbers: binary64 with round-to-nearest, ties to even *)

\* The significand of a binary64 number has 53 bits
SignificandBits == 53

\* A bit string is a sequence of 0 and 1, most significant bit first.  A double
\* above 0 is [bits, e] of value bits * 2^e, with SignificandBits bits, the
\* first of them 1 (the model's numbers are far from the subnormal range)
RECURSIVE NatBits(_)
NatBits(n) == IF n = 0 THEN <<>> ELSE Append(NatBits(n \div 2), n % 2)

RECURSIVE BitsValue(_)
BitsValue(bits) ==
  IF bits = <<>> THEN 0 ELSE 2 * BitsValue(SubSeq(bits, 1, Len(bits) - 1)) + bits[Len(bits)]

Zeros(k) == [i \in 1..k |-> 0]

Reverse(seq) == [i \in DOMAIN seq |-> seq[Len(seq) + 1 - i]]

Zero == [bits |-> <<>>, e |-> 0]

LeadingZeros(bits) ==
  CHOOSE k \in 0..Len(bits) : /\ k = Len(bits) \/ bits[k + 1] = 1
                              /\ \A j \in 1..k : bits[j] = 0

TrailingOnes(bits) ==
  CHOOSE k \in 0..Len(bits) : /\ k = Len(bits) \/ bits[Len(bits) - k] = 0
                              /\ \A j \in 1..k : bits[Len(bits) + 1 - j] = 1

\* bits + 1, for bits that end in k ones after a zero
IncrementAt(bits, k) ==
  [i \in DOMAIN bits |->
     IF i < Len(bits) - k THEN bits[i] ELSE IF i = Len(bits) - k THEN 1 ELSE 0]

\* (bits + 1) * 2^e for a significand bits
Increment(bits, e) ==
  IF TrailingOnes(bits) = Len(bits)
    THEN [bits |-> <<1>> \o Zeros(Len(bits) - 1), e |-> e + 1]
    ELSE [bits |-> IncrementAt(bits, TrailingOnes(bits)), e |-> e]

\* Whether the bits after the significand round it up: above a half, or a
\* half and the significand odd
RoundsUp(bits, sticky) ==
  /\ bits[SignificandBits + 1] = 1
  /\ \/ sticky
     \/ bits[SignificandBits] = 1
     \/ \E i \in (SignificandBits + 2)..Len(bits) : bits[i] = 1

\* The double nearest to bits * 2^e plus, when sticky, less than 2^e, for bits
\* that start with 1
RoundStripped(bits, e, sticky) ==
  IF bits = <<>> THEN Zero
  ELSE IF Len(bits) <= SignificandBits
    THEN [bits |-> bits \o Zeros(SignificandBits - Len(bits)),
          e |-> e - (SignificandBits - Len(bits))]
  ELSE IF RoundsUp(bits, sticky)
    THEN Increment(SubSeq(bits, 1, SignificandBits), e + Len(bits) - SignificandBits)
  ELSE [bits |-> SubSeq(bits, 1, SignificandBits), e |-> e + Len(bits) - SignificandBits]

RoundToDouble(bits, e, sticky) ==
  RoundStripped(SubSeq(bits, LeadingZeros(bits) + 1, Len(bits)), e, sticky)

\* One step of a long division by c: the next quotient bit and the remainder
DivideStep(bit, c, r) ==
  IF 2 * r + bit >= c THEN [q |-> <<1>>, r |-> 2 * r + bit - c]
  ELSE [q |-> <<0>>, r |-> 2 * r + bit]

DivideJoin(left, right) == [q |-> left.q \o right.q, r |-> right.r]

\* bits[lo..hi] divided by the positive integer c, entered with remainder r:
\* the quotient's bits and the remainder
RECURSIVE LongDivide(_, _, _, _, _)
DivideRight(bits, c, lo, hi, left) ==
  DivideJoin(left, LongDivide(bits, c, ((lo + hi) \div 2) + 1, hi, left.r))

LongDivide(bits, c, lo, hi, r) ==
  IF lo > hi THEN [q |-> <<>>, r |-> r]
  ELSE IF lo = hi THEN DivideStep(bits[lo], c, r)
  ELSE DivideRight(bits, c, lo, hi, LongDivide(bits, c, lo, (lo + hi) \div 2, r))

\* One step of a multiplication by c: the product's bit and the carry
MultiplyStep(bit, c, carry) ==
  [p |-> <<(bit * c + carry) % 2>>, carry |-> (bit * c + carry) \div 2]

\* The product's bits are kept least significant first, as they are produced
MultiplyJoin(left, right) == [p |-> right.p \o left.p, carry |-> left.carry]

\* bits[lo..hi] times the integer c >= 0, entered with a carry from the right:
\* the product's bits and the carry to the left
RECURSIVE Multiply(_, _, _, _, _)
MultiplyLeft(bits, c, lo, hi, right) ==
  MultiplyJoin(Multiply(bits, c, lo, (lo + hi) \div 2, right.carry), right)

Multiply(bits, c, lo, hi, carry) ==
  IF lo > hi THEN [p |-> <<>>, carry |-> carry]
  ELSE IF lo = hi THEN MultiplyStep(bits[lo], c, carry)
  ELSE MultiplyLeft(bits, c, lo, hi, Multiply(bits, c, ((lo + hi) \div 2) + 1, hi, carry))

ProductBits(product) == NatBits(product.carry) \o Reverse(product.p)

\* The quotient bits a division by c develops below the significand, so that
\* the quotient has a round bit
QuotientBits(c) == 2 + Len(NatBits(c))

DoubleOfInt(n) == RoundToDouble(NatBits(n), 0, FALSE)

RoundQuotient(x, c, quotient) ==
  RoundToDouble(quotient.q, x.e - QuotientBits(c), quotient.r # 0)

\* x / c and x * c, for a double x >= 0 and an integer c (c > 0 as a divisor)
DoubleDivide(x, c) ==
  RoundQuotient(x, c,
    LongDivide(x.bits \o Zeros(QuotientBits(c)), c, 1, Len(x.bits) + QuotientBits(c), 0))

DoubleTimes(x, c) ==
  RoundToDouble(ProductBits(Multiply(x.bits, c, 1, Len(x.bits), 0)), x.e, FALSE)

\* x < y for two significands
BitsLess(a, b) ==
  \E i \in DOMAIN a : a[i] < b[i] /\ \A j \in 1..(i - 1) : a[j] = b[j]

\* x < y for doubles x, y >= 0
DoubleLess(x, y) ==
  IF y = Zero THEN FALSE
  ELSE IF x = Zero THEN TRUE
  ELSE x.e < y.e \/ (x.e = y.e /\ BitsLess(x.bits, y.bits))

DoubleLessInt(x, n) == DoubleLess(x, DoubleOfInt(n))

DoubleGreaterInt(x, n) == DoubleLess(DoubleOfInt(n), x)

\* Math.trunc of a double below 2^31
DoubleTrunc(x) ==
  IF x = Zero \/ x.e <= 0 - SignificandBits THEN 0
  ELSE BitsValue(SubSeq(x.bits, 1, SignificandBits + x.e))

----------------------------------------------------------------------------
(* RiskManager *)

\* Bounds of the RiskManager inputs
MaxPositionsLen == 2

MaxPerfLen == 2

\* Program constants
HistoryCap == 1000

ConditionMinPoints == 10

CorrelationPlaceholderTenths == 3

RiskSymbols == {"BTC", "ETH"}

RiskPrices == {1, 2}

RiskVolumes == {0, 1000}

RiskQuantities == {1, 7}

RiskPerfValues == {0, 8}

\* A common multiple of the prices: (p2 - p1) / p1 times PriceScale is an integer
PriceScale == SetMin({ m \in 1..(SetMax(RiskPrices) * SetMax(RiskPrices)) :
                        \A p \in RiskPrices : m % p = 0 })

\* One or two observations; the observations of one call share their price
\* and their volume
ShortSeries ==
  UNION { { [i \in 1..n |-> [symbol |-> ss[i], price |-> p, volume |-> v]] :
            ss \in [1..n -> RiskSymbols], p \in RiskPrices, v \in RiskVolumes } :
          n \in 1..2 }

\* Series long enough for analyzeMarketConditions to leave its defaults:
\* flat, or alternating between the lowest and the highest price
LongSeries ==
  { [i \in 1..ConditionMinPoints |->
       [symbol |-> s, price |-> IF i % 2 = 1 THEN SetMin(RiskPrices) ELSE b,
        volume |-> v]] :
    s \in RiskSymbols, b \in RiskPrices, v \in RiskVolumes }

RiskMarketData == ShortSeries \cup LongSeries

RiskPositions ==
  SeqsOf([symbol : RiskSymbols, quantity : {50}], 0, MaxPositionsLen)

\* The signals are on one symbol; positions and observations are on either
RiskSignals == [action : {"BUY", "SELL"}, symbol : {"BTC"},
                quantity : RiskQuantities, price : RiskPrices]

\* maxPositionSize, maxTotalExposure, maxDrawdown, maxVolatility in percent,
\* maxCorrelation in tenths, minLiquidity in volume units
IdleRiskLimits ==
  [maxPositionSize |-> 50, maxTotalExposure |-> 80, maxDrawdown |-> 20,
   maxCorrelationTenths |-> 7, maxVolatility |-> 20, minLiquidity |-> 100]

RiskLimitsSet ==
  { [maxPositionSize |-> ps, maxTotalExposure |-> 400, maxDrawdown |-> 20,
     maxCorrelationTenths |-> IF ps = 50 THEN 7 ELSE 2, maxVolatility |-> 20,
     minLiquidity |-> 100] : ps \in {50, 200} }
  \cup { IdleRiskLimits, [IdleRiskLimits EXCEPT !.maxPositionSize = 7] }

\* position.value is no field of Position: a position whose symbol is not in
\* marketData contributes undefined, and the sum is NaN; so it is for an object
\* without a quantity field (a DCA or a staking position)
PortfolioValueIsNaN(positions, marketData) ==
  \E i \in DOMAIN positions :
     \/ Find(marketData, positions[i].symbol) = 0
     \/ "quantity" \notin DOMAIN positions[i]

RECURSIVE PortfolioValueFrom(_, _, _)
PortfolioValueFrom(positions, marketData, i) ==
  IF i > Len(positions) THEN 0
  ELSE LET k == Find(marketData, positions[i].symbol)
       IN (IF k = 0 THEN 0 ELSE positions[i].quantity * marketData[k].price)
          + PortfolioValueFrom(positions, marketData, i + 1)

\* calculatePortfolioValue (meaningful when not PortfolioValueIsNaN)
PortfolioValue(positions, marketData) == PortfolioValueFrom(positions, marketData, 1)

\* An entry of performanceHistory: its value, a number or NaN
PerfPoint(nan, value) == [nan |-> nan, value |-> IF nan THEN 0 ELSE value]

\* Math.max(...this.performanceHistory.map(p => p.value)): NaN when an entry is
PerfPeakIsNaN(history) == \E i \in DOMAIN history : history[i].nan

PerfPeak(history) == SetMax({ history[i].value : i \in DOMAIN history })

\* calculateCurrentDrawdown(currentValue) > limit
DrawdownExceeds(history, pvNaN, pv, limit) ==
  /\ Len(history) >= 2
  /\ ~pvNaN
  /\ ~PerfPeakIsNaN(history)
  /\ PerfPeak(history) > 0
  /\ 100 * (PerfPeak(history) - pv) > limit * PerfPeak(history)

\* The returns of calculatePortfolioVolatility are numbers only when every
\* one-observation valuation is: every position and every observation carry
\* the same symbol (and the held quantity is not 0)
VolatilityIsNaN(positions, marketData) ==
  \/ Len(marketData) < 2
  \/ \E i \in DOMAIN positions : "quantity" \notin DOMAIN positions[i]
  \/ \E i \in DOMAIN positions, k \in DOMAIN marketData :
        positions[i].symbol # marketData[k].symbol
  \/ SumSeq([i \in DOMAIN positions |-> positions[i].quantity]) = 0

\* PriceScale * (p[i+1] - p[i]) / p[i]
ScaledReturns(marketData) ==
  [i \in 1..(Len(marketData) - 1) |->
     (PriceScale * (marketData[i + 1].price - marketData[i].price)) \div marketData[i].price]

SumSquares(s) == SumSeq([i \in DOMAIN s |-> s[i] * s[i]])

\* calculatePortfolioVolatility(positions, marketData) > limit:
\* sqrt(variance) * 100 > limit, squared and cleared of denominators
VolatilityExceeds(positions, marketData, limit) ==
  /\ positions # <<>>
  /\ ~VolatilityIsNaN(positions, marketData)
  /\ LET r == ScaledReturns(marketData)
         n == Len(r)
     IN 10000 * (n * SumSquares(r) - SumSeq(r) * SumSeq(r))
          > limit * limit * n * n * PriceScale * PriceScale

\* calculatePortfolioCorrelation(positions) > limit
CorrelationExceeds(positions, limitTenths) ==
  /\ Len(positions) >= 2
  /\ CorrelationPlaceholderTenths > limitTenths

\* analyzeVolatility: sqrt(sum r^2 / n) against 0.02, 0.05, 0.1
AnalyzeVolatility(marketData) ==
  IF Len(marketData) < ConditionMinPoints THEN "MEDIUM"
  ELSE LET r == ScaledReturns(marketData)
           n == Len(r)
           q == 10000 * SumSquares(r)
           d == n * PriceScale * PriceScale
       IN IF q < 4 * d THEN "LOW"
          ELSE IF q < 25 * d THEN "MEDIUM"
          ELSE IF q < 100 * d THEN "HIGH"
          ELSE "EXTREME"

\* getMarketConditionAdjustment(...).approved
MarketConditionApproves(marketData, signal) ==
  ~(AnalyzeVolatility(marketData) = "EXTREME" /\ signal.action = "BUY")

\* assetData && assetData.volume < minLiquidity
LiquidityTooLow(marketData, signal, minLiquidity) ==
  LET k == Find(marketData, signal.symbol)
  IN k # 0 /\ marketData[k].volume < minLiquidity

\* (positionValue / portfolioValue) * 100, for a portfolio value above 0
PositionSizePercent(signal, pv) ==
  DoubleTimes(DoubleDivide(DoubleOfInt(signal.quantity * signal.price), pv), 100)

\* positionSizePercent > maxPositionSize, with x / 0 = Infinity for x > 0 and
\* 0 / 0 = NaN; the model's portfolio values are NaN or not negative
PositionSizeExceeds(signal, pvNaN, pv, limit) ==
  /\ ~pvNaN
  /\ \/ pv = 0 /\ signal.quantity * signal.price > 0
     \/ pv > 0 /\ DoubleGreaterInt(PositionSizePercent(signal, pv), limit)

\* (maxPositionSize / 100) * portfolioValue / signal.price
AdjustedQuantity(signal, pv, limit) ==
  DoubleDivide(DoubleTimes(DoubleDivide(DoubleOfInt(limit), 100), pv), signal.price)

\* ((totalExposure + quantity * price) / portfolioValue) * 100 > maxTotalExposure,
\* for a quantity given as the fraction qNum / qDen
ExposureExceeds(qNum, qDen, price, pvNaN, pv, limit) ==
  /\ ~pvNaN
  /\ \/ pv = 0 /\ qNum * price > 0
     \/ pv > 0 /\ 100 * (pv * qDen + qNum * price) > limit * pv * qDen
     \/ pv < 0 /\ 100 * (pv * qDen + qNum * price) < limit * pv * qDen

\* The reject-type check that decides an unresized signal, in the code's order
FirstRejectingCheck(signal, positions, marketData, limits, history) ==
  LET pvNaN == PortfolioValueIsNaN(positions, marketData)
      pv    == PortfolioValue(positions, marketData)
  IN IF ExposureExceeds(signal.quantity, 1, signal.price, pvNaN, pv,
                        limits.maxTotalExposure) THEN "exposure"
     ELSE IF DrawdownExceeds(history, pvNaN, pv, limits.maxDrawdown) THEN "drawdown"
     ELSE IF VolatilityExceeds(positions, marketData, limits.maxVolatility)
       THEN "volatility"
     ELSE IF CorrelationExceeds(positions, limits.maxCorrelationTenths)
       THEN "correlation"
     ELSE IF ~MarketConditionApproves(marketData, signal) THEN "marketCondition"
     ELSE IF LiquidityTooLow(marketData, signal, limits.minLiquidity) THEN "liquidity"
     ELSE "none"

\* validateSignal: the position-size branch returns at once
ValidateSignal(signal, positions, marketData, limits, history) ==
  LET pvNaN == PortfolioValueIsNaN(positions, marketData)
      pv    == PortfolioValue(positions, marketData)
      rej   == FirstRejectingCheck(signal, positions, marketData, limits, history)
  IN IF PositionSizeExceeds(signal, pvNaN, pv, limits.maxPositionSize)
       THEN [approved |-> TRUE, hasAdjusted |-> TRUE,
             adjusted |-> AdjustedQuantity(signal, pv, limits.maxPositionSize),
             decidedBy |-> "positionSize"]
     ELSE [approved |-> rej = "none", hasAdjusted |-> FALSE,
           adjusted |-> Zero, decidedBy |-> rej]

\* The reject-type conditions that hold of a call's inputs; the exposure
\* condition is taken for a signal that is not resized, whose quantity is the
\* one that would be traded
FailedRejectChecks(signal, positions, marketData, limits, history, resized) ==
  LET pvNaN == PortfolioValueIsNaN(positions, marketData)
      pv    == PortfolioValue(positions, marketData)
  IN (IF /\ ~resized
         /\ ExposureExceeds(signal.quantity, 1, signal.price, pvNaN, pv,
                            limits.maxTotalExposure) THEN {"exposure"} ELSE {})
     \cup (IF DrawdownExceeds(history, pvNaN, pv, limits.maxDrawdown)
            THEN {"drawdown"} ELSE {})
     \cup (IF VolatilityExceeds(positions, marketData, limits.maxVolatility)
            THEN {"volatility"} ELSE {})
     \cup (IF CorrelationExceeds(positions, limits.maxCorrelationTenths)
            THEN {"correlation"} ELSE {})
     \cup (IF ~MarketConditionApproves(marketData, signal)
            THEN {"marketCondition"} ELSE {})
     \cup (IF LiquidityTooLow(marketData, signal, limits.minLiquidity)
            THEN {"liquidity"} ELSE {})

NoValidation == [called |-> FALSE]

RiskStart ==
  /\ riskLimits \in RiskLimitsSet
  /\ performanceHistory = <<>>
  /\ marketHistoryLen = 0
  /\ validation = NoValidation

\* The other specifications keep the RiskManager at one constructor state
RiskIdle ==
  /\ riskLimits = IdleRiskLimits
  /\ performanceHistory = <<>>
  /\ marketHistoryLen = 0
  /\ validation = NoValidation

\* updatePerformanceHistory(portfolioValue)
UpdatePerformanceHistory(value) ==
  /\ ~validation.called
  /\ Len(performanceHistory) < MaxPerfLen
  /\ performanceHistory' =
       LastN(Append(performanceHistory, PerfPoint(FALSE, value)), HistoryCap)
  /\ UNCHANGED <<riskLimits, marketHistoryLen, validation>>
  /\ UNCHANGED exceptRisk

\* One validateSignal call.  The call reads riskLimits and performanceHistory
\* and writes only marketHistory (analyzeMarketConditions -> updateMarketHistory),
\* which no check reads: a behaviour makes the call once, after any number of
\* performance updates, and keeps the signal and the result.
ValidateSignalCall(signal, positions, marketData) ==
  /\ ~validation.called
  /\ \E result \in { ValidateSignal(signal, positions, marketData, riskLimits,
                                     performanceHistory) } :
       validation' =
         [called |-> TRUE, signal |-> signal,
          resized |-> result.decidedBy = "positionSize",
          pvPositive |-> ~PortfolioValueIsNaN(positions, marketData)
                          /\ PortfolioValue(positions, marketData) > 0,
          failed |-> FailedRejectChecks(signal, positions, marketData, riskLimits,
                                        performanceHistory,
                                        result.decidedBy = "positionSize"),
          result |-> result]
  /\ marketHistoryLen' = Min2(marketHistoryLen + Len(marketData), HistoryCap)
  /\ UNCHANGED <<riskLimits, performanceHistory>>
  /\ UNCHANGED exceptRisk

----------------------------------------------------------------------------
(* RiskManager.emergencyRiskManagement *)

\* analyzeSentiment: (avgChange + 10) * 5 against 30 and 70
AnalyzeSentiment(marketData) ==
  IF Len(marketData) < ConditionMinPoints THEN "NEUTRAL"
  ELSE LET total == SumSeq([i \in DOMAIN marketData |-> marketData[i].change24h])
           n == Len(marketData)
       IN IF 5 * (total + 10 * n) < 30 * n THEN "FEAR"
          ELSE IF 5 * (total + 10 * n) > 70 * n THEN "GREED"
          ELSE "NEUTRAL"

\* A SELL of emergencyRiskManagement: quantity in tenths of the unit of the
\* positions' quantities
EmergencySell(position, confidence, quantityTenths) ==
  [action |-> "SELL", symbol |-> position.symbol, confidence |-> confidence,
   quantityTenths |-> quantityTenths]

\* Math.ceil(n / 2)
CeilHalf(n) == (n + 1) \div 2

\* emergencyRiskManagement(positions, marketData): the whole of every position
\* on a drawdown above emergencyStopLoss, then half of every position under
\* EXTREME volatility with FEAR, then 30 percent of the first half of the
\* positions (the sort's comparator is 0 for every pair and keeps the order) on
\* a correlation above 1.5 * maxCorrelation
EmergencyRiskManagement(limits, history, positions, marketData) ==
  (IF DrawdownExceeds(history, PortfolioValueIsNaN(positions, marketData),
                      PortfolioValue(positions, marketData), limits.emergencyStopLoss)
   THEN [i \in DOMAIN positions |->
           EmergencySell(positions[i], 100, 10 * positions[i].quantity)]
   ELSE <<>>)
  \o (IF AnalyzeVolatility(marketData) = "EXTREME" /\ AnalyzeSentiment(marketData) = "FEAR"
      THEN [i \in DOMAIN positions |->
              EmergencySell(positions[i], 95, 5 * positions[i].quantity)]
      ELSE <<>>)
  \o (IF Len(positions) >= 2
           /\ 2 * CorrelationPlaceholderTenths > 3 * limits.maxCorrelationTenths
      THEN [i \in 1..CeilHalf(Len(positions)) |->
              EmergencySell(positions[i], 85, 3 * positions[i].quantity)]
      ELSE <<>>)

\* Ten observations of one symbol, flat or alternating in price, with one
\* change24h; and the short series with a change24h of 0
EmergencySeries ==
  { [i \in 1..ConditionMinPoints |->
       [symbol |-> s, price |-> IF i % 2 = 1 THEN SetMin(RiskPrices) ELSE b,
        volume |-> 1000, change24h |-> c]] :
    s \in RiskSymbols, b \in RiskPrices, c \in {0 - 5, 0} }
  \cup { [i \in DOMAIN series |->
            [symbol |-> series[i].symbol, price |-> series[i].price,
             volume |-> series[i].volume, change24h |-> 0]] : series \in ShortSeries }

\* Limits with an emergencyStopLoss of 15 percent
EmergencyLimitsSet ==
  { [maxPositionSize |-> 50, maxTotalExposure |-> 80, maxDrawdown |-> 20,
     maxCorrelationTenths |-> c, maxVolatility |-> 20, minLiquidity |-> 100,
     emergencyStopLoss |-> 15] : c \in {1, 7} }

\* Performance histories: none, or two entries above the value of any portfolio
EmergencyHistories == { <<>>, << PerfPoint(FALSE, 200), PerfPoint(FALSE, 200) >> }

\* One emergencyRiskManagement call: it writes marketHistory
\* (analyzeMarketConditions) and returns the signals
EmergencyCall(positions, marketData) ==
  /\ ~validation.called
  /\ validation' = [called |-> TRUE, positions |-> positions,
                    signals |-> EmergencyRiskManagement(riskLimits, performanceHistory,
                                                        positions, marketData)]
  /\ marketHistoryLen' = Min2(marketHistoryLen + Len(marketData), HistoryCap)
  /\ UNCHANGED <<riskLimits, performanceHistory>>
  /\ UNCHANGED exceptRisk

----------------------------------------------------------------------------
(* MomentumTradingBot *)

\* Program constants: 15 * 60 * 1000 ms in minutes; the history a score needs;
\* the remaining quantity (in thousandths) at which a SELL closes a position
RebalanceIntervalMin == 15

MomentumMinHistory == 10

QtyEpsilonMilli == 1

\* Bounds of the momentum inputs
MaxMomentumHistory == 2

MaxNowMin == 30

MaxObsTimeMin == 15

MaxMomentumTrades == 2

MomentumSymbols == {"BTC", "ETH"}

\* The symbol that trades are executed in
MomentumTraded == {"BTC"}

\* allocation / maxPositions / price is a whole number of thousandths at these prices
MomentumPrices == {100, 125}

\* Quantities in thousandths
MomentumQuantities == {10000, 20000}

\* The fields of MarketData that the bot reads while every history is short
MomentumObs == [symbol : MomentumSymbols, price : MomentumPrices]

MomentumNew ==
  [positions |-> <<>>, historyLen |-> [s \in MomentumSymbols |-> 0], lastRebalance |-> 0]

NoTime == 0 - 1

NoMomentumCall ==
  [called |-> FALSE, obsTime |-> 0, rebalanced |-> FALSE, signals |-> <<>>,
   stopLossDue |-> {}, takeProfitDue |-> {}, prevRebalanceObsTime |-> NoTime,
   lastRebalanceObsTime |-> NoTime, positionsBefore |-> <<>>]

\* A close rule that keeps a position whose remaining quantity is exactly 0
ClosesOnlyBelowZero(remainingQuantity) == remainingQuantity < 0

\* remainingQuantity <= 0.001
ClosesPosition(remainingQuantity) == remainingQuantity <= QtyEpsilonMilli

\* updatePosition.  entryPrice is the fraction entryNum / entryDen in lowest
\* terms; pnl and pnlPercentage are functions of entryPrice, currentPrice and
\* quantity and are not stored.
MomentumUpdatePosition(positions, symbol, action, quantity, price) ==
  IF action = "BUY" THEN
    IF MapHas(positions, symbol) THEN
      LET cur == MapGet(positions, symbol)
          totalQuantity == cur.quantity + quantity
          g1 == Gcd(cur.quantity, cur.entryDen)
          valueNum == (cur.quantity \div g1) * cur.entryNum
                        + quantity * price * (cur.entryDen \div g1)
          den == (cur.entryDen \div g1) * totalQuantity
          g == Gcd(valueNum, den)
      IN MapSet(positions, [symbol |-> symbol, quantity |-> totalQuantity,
                            entryNum |-> valueNum \div g, entryDen |-> den \div g,
                            currentPrice |-> price])
    ELSE MapSet(positions, [symbol |-> symbol, quantity |-> quantity,
                            entryNum |-> price, entryDen |-> 1, currentPrice |-> price])
  ELSE IF MapHas(positions, symbol) THEN
    LET cur == MapGet(positions, symbol)
        remainingQuantity == cur.quantity - quantity
    IN IF ClosesPosition(remainingQuantity) THEN MapDelete(positions, symbol)
       ELSE MapSet(positions, [cur EXCEPT !.quantity = remainingQuantity,
                                          !.currentPrice = price])
  ELSE positions

\* (currentPrice - entryPrice) * entryDen
PnlDelta(position) == position.currentPrice * position.entryDen - position.entryNum

\* Math.abs(position.pnlPercentage) >= stopLoss
StopLossDue(position, stopLoss) ==
  100 * Abs(PnlDelta(position)) >= stopLoss * position.entryNum

\* position.pnlPercentage >= takeProfit
TakeProfitDue(position, takeProfit) ==
  100 * PnlDelta(position) >= takeProfit * position.entryNum

Signal(action, symbol, confidence, price, quantity, kind) ==
  [action |-> action, symbol |-> symbol, confidence |-> confidence, price |-> price,
   quantity |-> quantity, kind |-> kind]

CheckStopLossTriggers(positions, config) ==
  LET due == SelectSeq(positions, LAMBDA p : StopLossDue(p, config.stopLoss))
  IN [i \in DOMAIN due |->
        Signal("SELL", due[i].symbol, 100, due[i].currentPrice, due[i].quantity,
               "stop-loss")]

CheckTakeProfitTriggers(positions, config) ==
  LET due == SelectSeq(positions, LAMBDA p : TakeProfitDue(p, config.takeProfit))
  IN [i \in DOMAIN due |->
        Signal("SELL", due[i].symbol, 90, due[i].currentPrice, due[i].quantity,
               "take-profit")]

\* history.push(data) and history.shift() above 1000 entries; the model keeps
\* the length of each symbol's history
MomentumPushHistory(historyLen, marketData) ==
  [s \in DOMAIN historyLen |->
     Min2(historyLen[s]
            + Cardinality({ i \in DOMAIN marketData : marketData[i].symbol = s }),
          HistoryCap)]

\* calculateMomentumScores where history.length < 10 for every symbol, the
\* range the model's histories stay in: every observation is scored 0
MomentumScores(marketData) ==
  [i \in DOMAIN marketData |->
     [symbol |-> marketData[i].symbol, score |-> 0, data |-> marketData[i]]]

\* generateRebalancingSignals; quantities in thousandths
GenerateRebalancingSignals(topPerformers, positions, config) ==
  LET allocationPerPosition == config.allocation \div config.maxPositions
      leaving == SelectSeq(positions, LAMBDA p :
                   ~\E j \in DOMAIN topPerformers : topPerformers[j].symbol = p.symbol)
      sells == [i \in DOMAIN leaving |->
                  Signal("SELL", leaving[i].symbol, 85, leaving[i].currentPrice,
                         leaving[i].quantity, "leave")]
      buyOf(asset) ==
        LET targetQuantity == (1000 * allocationPerPosition) \div asset.data.price
        IN IF ~MapHas(positions, asset.symbol)
             THEN << Signal("BUY", asset.symbol, Min2(95, 60 + asset.score),
                            asset.data.price, targetQuantity, "enter") >>
           ELSE LET quantityDiff == targetQuantity - MapGet(positions, asset.symbol).quantity
                IN IF 10 * Abs(quantityDiff) > targetQuantity
                     THEN << Signal(IF quantityDiff > 0 THEN "BUY" ELSE "SELL",
                                    asset.symbol, 75, asset.data.price,
                                    Abs(quantityDiff), "resize") >>
                   ELSE <<>>
  IN sells \o ConcatAll([j \in DOMAIN topPerformers |-> buyOf(topPerformers[j])])

\* analyzeMarket(marketData) at wall-clock time clock
MomentumAnalyzeMarket(bot, marketData, clock, config) ==
  LET historyLen == MomentumPushHistory(bot.historyLen, marketData)
  IN IF clock - bot.lastRebalance < RebalanceIntervalMin
       THEN [bot |-> [bot EXCEPT !.historyLen = historyLen],
             signals |-> <<>>, rebalanced |-> FALSE]
     ELSE LET sortedAssets ==
                SelectSeq(SortByScore(MomentumScores(marketData)),
                          LAMBDA a : a.symbol \in Range(config.enabledAssets))
              topPerformers ==
                SubSeq(sortedAssets, 1, Min2(Len(sortedAssets), config.maxPositions))
          IN [bot |-> [bot EXCEPT !.historyLen = historyLen, !.lastRebalance = clock],
              signals |->
                GenerateRebalancingSignals(topPerformers, bot.positions, config)
                  \o CheckStopLossTriggers(bot.positions, config)
                  \o (IF config.takeProfit # 0
                        THEN CheckTakeProfitTriggers(bot.positions, config) ELSE <<>>),
              rebalanced |-> TRUE]

SymbolsOf(positions) == { positions[i].symbol : i \in DOMAIN positions }

\* One analyzeMarket call on observations stamped obsTime
MomentumAnalyze(marketData, obsTime) ==
  /\ obsTime <= MaxObsTimeMin
  /\ \A s \in MomentumSymbols :
       MomentumPushHistory(momentum.historyLen, marketData)[s] <= MaxMomentumHistory
  /\ LET r == MomentumAnalyzeMarket(momentum, marketData, now, HarnessConfig)
     IN /\ momentum' = r.bot
        /\ momentumCall' =
             [called |-> TRUE, obsTime |-> obsTime, rebalanced |-> r.rebalanced,
              signals |-> r.signals,
              stopLossDue |->
                SymbolsOf(SelectSeq(momentum.positions,
                            LAMBDA p : StopLossDue(p, HarnessConfig.stopLoss))),
              takeProfitDue |->
                SymbolsOf(SelectSeq(momentum.positions,
                            LAMBDA p : TakeProfitDue(p, HarnessConfig.takeProfit))),
              prevRebalanceObsTime |-> momentumCall.lastRebalanceObsTime,
              lastRebalanceObsTime |->
                IF r.rebalanced THEN obsTime ELSE momentumCall.lastRebalanceObsTime,
              positionsBefore |-> momentum.positions]
  /\ UNCHANGED <<now, momentumTrades>>
  /\ UNCHANGED exceptMomentum

\* One updatePosition call
MomentumUpdate(symbol, action, quantity, price) ==
  /\ momentumTrades < MaxMomentumTrades
  /\ momentumTrades' = momentumTrades + 1
  /\ momentum' = [momentum EXCEPT !.positions =
                    MomentumUpdatePosition(momentum.positions, symbol, action,
                                           quantity, price)]
  /\ UNCHANGED <<now, momentumCall>>
  /\ UNCHANGED exceptMomentum

\* Wall-clock time passes between two calls
MomentumTick(minutes) ==
  /\ now + minutes <= MaxNowMin
  /\ now' = now + minutes
  /\ UNCHANGED momentumVars
  /\ UNCHANGED exceptMomentum

MomentumIdle ==
  /\ momentum = MomentumNew
  /\ momentumTrades = 0
  /\ momentumCall = NoMomentumCall

----------------------------------------------------------------------------
(* DCATradingBot *)

\* Program constants: MAX_HISTORY, PRUNE_CHUNK, the window of calculateVolumeRatio,
\* a day in minutes
DcaMaxHistory == 1000

DcaPruneChunk == 200

VolumeWindow == 10

DayMin == 1440

\* Bounds of the DCA inputs
MaxDcaObservations == 11

MaxDcaTrades == 2

MaxDcaDays == 1

DcaSymbols == {"BTC"}

DcaPrices == {100, 120}

DcaChanges == {0 - 10, 0}

\* The volumes a behaviour's observations carry: every observation of one
\* behaviour has the same volume
DcaVolumes == {0, 1000}

\* createBotInstance: DAILY, amount 100, startDate the construction time, no
\* endDate and no maxPurchases (0 stands for an absent field)
HarnessSchedule ==
  [frequency |-> "DAILY", amount |-> 100, startDate |-> 0, endDate |-> 0,
   maxPurchases |-> 0]

DcaNew == [positions |-> <<>>, volumes |-> [s \in DcaSymbols |-> <<>>],
           historyLen |-> [s \in DcaSymbols |-> 0]]

\* Prices that no valid observation carries
DcaInvalidPrices == {0 - 100, 0}

NoDcaCall == [called |-> FALSE, zeroVolume |-> FALSE, invalid |-> FALSE, time |-> 0,
              lastPurchaseBefore |-> NoTime, applied |-> 0,
              historyLenBefore |-> [s \in DcaSymbols |-> 0], signals |-> <<>>]

\* getIntervalMs, in minutes
DcaIntervalMin(schedule) ==
  CASE schedule.frequency = "DAILY" -> DayMin
    [] schedule.frequency = "WEEKLY" -> 7 * DayMin
    [] schedule.frequency = "MONTHLY" -> 30 * DayMin
    [] OTHER -> DayMin

\* shouldMakePurchase(position, now)
ShouldMakePurchase(positions, symbol, clock, schedule) ==
  /\ ~(clock < schedule.startDate)
  /\ ~(schedule.endDate # 0 /\ clock > schedule.endDate)
  /\ ~(schedule.maxPurchases # 0 /\ MapHas(positions, symbol)
         /\ MapGet(positions, symbol).purchases >= schedule.maxPurchases)
  /\ MapHas(positions, symbol) =>
       clock - MapGet(positions, symbol).lastPurchase >= DcaIntervalMin(schedule)

\* calculateVolumeRatio(symbol) > 1.2 and < 0.8: latest / average over the last
\* ten volumes, 1 below ten observations, NaN when the volumes are all 0
VolumeRatioAbove(volumes, historyLen) ==
  /\ historyLen >= VolumeWindow
  /\ SumSeq(volumes) > 0
  /\ 10 * volumes[Len(volumes)] * Len(volumes) > 12 * SumSeq(volumes)

VolumeRatioBelow(volumes, historyLen) ==
  /\ historyLen >= VolumeWindow
  /\ SumSeq(volumes) > 0
  /\ 10 * volumes[Len(volumes)] * Len(volumes) < 8 * SumSeq(volumes)

\* calculateDCAConfidence; totalInvested is in thousandths
CalculateDCAConfidence(bot, assetData, config) ==
  LET s == assetData.symbol
      c1 == 70 + (IF assetData.change24h < 0 - 5 THEN 15
                  ELSE IF assetData.change24h > 10 THEN 0 - 10 ELSE 0)
      c2 == c1 + (IF VolumeRatioAbove(bot.volumes[s], bot.historyLen[s]) THEN 5
                  ELSE IF VolumeRatioBelow(bot.volumes[s], bot.historyLen[s])
                    THEN 0 - 5 ELSE 0)
      invested == IF MapHas(bot.positions, s)
                    THEN MapGet(bot.positions, s).totalInvested ELSE 0
      c3 == c2 + (IF ~MapHas(bot.positions, s) THEN 0
                  ELSE IF 100 * invested < 20 * 1000 * config.allocation THEN 10
                  ELSE IF 100 * invested > 50 * 1000 * config.allocation THEN 0 - 10
                  ELSE 0)
  IN Max2(30, Min2(95, c3))

\* A DCA signal; the quantity of a BUY (dynamic sizing) is not modelled
DcaSignal(action, symbol, confidence, price, kind) ==
  [action |-> action, symbol |-> symbol, confidence |-> confidence, price |-> price,
   kind |-> kind]

\* totalPnLPercentage of checkEmergencyStopLoss and shouldTakeProfit, compared
DcaLossReaches(position, price, stopLoss) ==
  100 * (position.totalQuantity * price - position.totalInvested)
    <= (0 - stopLoss) * position.totalInvested

DcaGainReaches(position, price, takeProfit) ==
  100 * (position.totalQuantity * price - position.totalInvested)
    >= takeProfit * position.totalInvested

\* history.push(data) with the chunked pruning, one observation at a time
RECURSIVE DcaPushHistory(_, _, _)
DcaPushHistory(bot, marketData, i) ==
  IF i > Len(marketData) THEN bot
  ELSE LET s == marketData[i].symbol
           n == bot.historyLen[s] + 1
           pushed == [bot EXCEPT
                        !.volumes[s] = LastN(Append(@, marketData[i].volume), VolumeWindow),
                        !.historyLen[s] =
                          IF n > DcaMaxHistory + DcaPruneChunk THEN DcaMaxHistory ELSE n]
       IN DcaPushHistory(pushed, marketData, i + 1)

\* analyzeMarket(marketData) at wall-clock time clock
DcaAnalyzeMarket(bot0, marketData, clock, config, schedule) ==
  LET bot == DcaPushHistory(bot0, marketData, 1)
      signalsOf(symbol) ==
        LET k == Find(marketData, symbol)
            held == MapHas(bot.positions, symbol)
        IN IF k = 0 THEN <<>>
           ELSE (IF ShouldMakePurchase(bot.positions, symbol, clock, schedule)
                   THEN << DcaSignal("BUY", symbol,
                                     CalculateDCAConfidence(bot, marketData[k], config),
                                     marketData[k].price, "purchase") >>
                 ELSE <<>>)
             \o (IF held /\ config.stopLoss > 0
                      /\ DcaLossReaches(MapGet(bot.positions, symbol),
                                        marketData[k].price, config.stopLoss)
                   THEN << DcaSignal("SELL", symbol, 100, marketData[k].price,
                                     "stop-loss") >>
                 ELSE <<>>)
             \o (IF held /\ config.takeProfit # 0
                      /\ DcaGainReaches(MapGet(bot.positions, symbol),
                                        marketData[k].price, config.takeProfit)
                   THEN << DcaSignal("SELL", symbol, 90, marketData[k].price,
                                     "take-profit") >>
                 ELSE <<>>)
  IN [bot |-> bot,
      signals |-> ConcatAll([j \in DOMAIN config.enabledAssets |->
                               signalsOf(config.enabledAssets[j])])]

\* updatePosition; quantities and amounts in thousandths
DcaUpdatePosition(positions, symbol, action, quantity, price, clock) ==
  IF action = "BUY" THEN
    IF MapHas(positions, symbol) THEN
      LET cur == MapGet(positions, symbol)
      IN MapSet(positions, [symbol |-> symbol,
                            totalQuantity |-> cur.totalQuantity + quantity,
                            totalInvested |-> cur.totalInvested + quantity * price,
                            purchases |-> cur.purchases + 1,
                            lastPurchase |-> clock])
    ELSE MapSet(positions, [symbol |-> symbol, totalQuantity |-> quantity,
                            totalInvested |-> quantity * price, purchases |-> 1,
                            lastPurchase |-> clock])
  ELSE IF MapHas(positions, symbol) THEN MapDelete(positions, symbol)
  ELSE positions

\* One analyzeMarket call; spacing is the distance in seconds of the first
\* observation's timestamp from the last one fed (later ones follow at 1 second)
DcaAnalyzeWith(marketData, spacing, schedule) ==
  /\ dcaFeed.count + Len(marketData) <= MaxDcaObservations
  /\ \A i \in DOMAIN marketData : marketData[i].volume = dcaFeed.volume
  /\ LET r == DcaAnalyzeMarket(dca, marketData, now, HarnessConfig, schedule)
     IN /\ dca' = r.bot
        /\ dcaCall' = [called |-> TRUE,
                       time |-> now,
                       lastPurchaseBefore |-> dcaFeed.lastPurchase,
                       applied |-> 0,
                       zeroVolume |-> \A i \in DOMAIN marketData : marketData[i].volume = 0,
                       invalid |-> \A i \in DOMAIN marketData :
                                     marketData[i].price <= 0 \/ marketData[i].volume < 0,
                       historyLenBefore |-> dca.historyLen,
                       signals |-> r.signals]
        /\ dcaFeed' = [dcaFeed EXCEPT
                         !.count = @ + Len(marketData),
                         !.rapid = @ /\ (dcaFeed.count = 0 \/ spacing = 1),
                         !.signals = @ + Len(r.signals)]
  /\ UNCHANGED <<now, dcaTrades>>
  /\ UNCHANGED exceptDca

\* The bot of the harness: constructed with the harness schedule
DcaAnalyze(marketData, spacing) == DcaAnalyzeWith(marketData, spacing, HarnessSchedule)

\* The feed record after an updatePosition call: the purchases applied over the
\* bot's lifetime and the time of the last one
FeedAfterTrade(feed, action, clock) ==
  IF action = "BUY"
    THEN [feed EXCEPT !.purchases = @ + 1, !.lastPurchase = clock]
  ELSE feed

\* One updatePosition call
DcaUpdate(symbol, action, quantity, price) ==
  /\ dcaTrades < MaxDcaTrades
  /\ dcaTrades' = dcaTrades + 1
  /\ dca' = [dca EXCEPT !.positions =
               DcaUpdatePosition(dca.positions, symbol, action, quantity, price, now)]
  /\ dcaFeed' = FeedAfterTrade(dcaFeed, action, now)
  /\ UNCHANGED <<now, dcaCall>>
  /\ UNCHANGED exceptDca

\* Bounds of the scheduled runs
MaxScheduleTrades == 3

MaxScheduleDays == 3

\* A schedule with a window and a purchase limit
LimitedSchedule ==
  [frequency |-> "DAILY", amount |-> 100, startDate |-> DayMin, endDate |-> 2 * DayMin,
   maxPurchases |-> 1]

\* The next signal of the last analyzeMarket call is executed, as testAlgorithm
\* executes the signals in their order: updatePosition(signal.symbol,
\* signal.action, quantity, signal.price), one unit in thousandths
DcaApplySignal ==
  /\ dcaCall.applied < Len(dcaCall.signals)
  /\ dcaTrades < MaxScheduleTrades
  /\ dcaTrades' = dcaTrades + 1
  /\ LET signal == dcaCall.signals[dcaCall.applied + 1]
     IN /\ dca' = [dca EXCEPT !.positions =
                     DcaUpdatePosition(dca.positions, signal.symbol, signal.action,
                                       1000, signal.price, now)]
        /\ dcaFeed' = FeedAfterTrade(dcaFeed, signal.action, now)
  /\ dcaCall' = [dcaCall EXCEPT !.applied = @ + 1]
  /\ UNCHANGED now
  /\ UNCHANGED exceptDca

\* A day passes in a scheduled run
DcaScheduleTick ==
  /\ now + DayMin <= MaxScheduleDays * DayMin
  /\ now' = now + DayMin
  /\ UNCHANGED dcaVars
  /\ UNCHANGED exceptDca

\* A day of wall-clock time passes
DcaTick ==
  /\ now + DayMin <= MaxDcaDays * DayMin
  /\ now' = now + DayMin
  /\ UNCHANGED dcaVars
  /\ UNCHANGED exceptDca

DcaIdle ==
  /\ dca = DcaNew
  /\ dcaTrades = 0
  /\ dcaCall = NoDcaCall
  /\ dcaFeed = [count |-> 0, rapid |-> TRUE, signals |-> 0, volume |-> 1000,
                purchases |-> 0, lastPurchase |-> NoTime]

----------------------------------------------------------------------------
(* SmartStakingBot *)

\* Amounts (stakedAmount, minStake, maxStake, allocation amounts) are in tenths
\* of the currency unit; an APY is in units of 1e-7 percent, the product of the
\* table entries; a score is in units of 1e-4, truncated after every factor.

\* Program constants: the optimization period (60 * 60 * 1000 ms) in minutes,
\* MAX_OPPS_PER_SYMBOL
OptimizationPeriodMin == 60

MaxOppsPerSymbol == 10

\* Bounds of the staking inputs
MaxStakingTrades == 2

MaxStakingNowMin == 1502

StakingSymbols == {"ETH", "ADA"}

StakingTraded == {"ETH"}

\* quantity * price of an updatePosition call, in tenths
StakingAmounts == {30, 20000}

StakingPrices == {100}

StakingChanges == {0 - 20, 0}

\* config.allocation, in currency units
StakingAllocations == {10, 10000}

\* One or two observations, all with the same 24h change
StakingMarketData ==
  UNION { { [i \in 1..n |-> [symbol |-> ss[i], price |-> ps[i], change24h |-> c]] :
              ss \in [1..n -> StakingSymbols], ps \in [1..n -> StakingPrices],
              c \in StakingChanges } : n \in 1..2 }

NoPlatform == ""

\* The rows of the platform tables for the symbols the model feeds
GetStakingPlatforms(symbol) ==
  CASE symbol = "ETH" -> <<"Lido", "Rocket Pool", "Coinbase", "Kraken">>
    [] symbol = "ADA" -> <<"Cardano Pool", "Binance", "Kraken">>
    [] OTHER -> <<"Binance", "Kraken", "Coinbase">>

\* getBaseAPY, in tenths of a percent
GetBaseAPY(symbol) ==
  CASE symbol = "ETH" -> 45
    [] symbol = "ADA" -> 58
    [] OTHER -> 50

\* getPlatformMultiplier, in hundredths
GetPlatformMultiplier(platform) ==
  CASE platform = "Lido" -> 100
    [] platform = "Rocket Pool" -> 95
    [] platform = "Coinbase" -> 85
    [] platform = "Kraken" -> 90
    [] platform = "Binance" -> 88
    [] platform = "Cardano Pool" -> 100
    [] OTHER -> 90

\* getRiskAdjustment: its two factors, each in hundredths
PlatformRisk(platform) ==
  CASE platform = "Lido" -> 95
    [] platform = "Rocket Pool" -> 98
    [] platform = "Coinbase" -> 92
    [] platform = "Kraken" -> 94
    [] platform = "Binance" -> 90
    [] OTHER -> 95

AssetRisk(symbol) ==
  CASE symbol = "ETH" -> 95
    [] symbol = "ADA" -> 100
    [] OTHER -> 100

GetMinStake(symbol, platform) ==
  CASE symbol = "ETH" -> 1
    [] symbol = "ADA" -> 100
    [] OTHER -> 10

GetMaxStake(symbol, platform) ==
  CASE symbol = "ETH" /\ platform \in {"Lido", "Rocket Pool"} -> 10000
    [] OTHER -> 100000

\* getLockPeriod, in days: 0 on every row of these symbols
GetLockPeriod(symbol, platform) == 0

GetRiskLevel(symbol, platform) ==
  CASE symbol \in {"ETH", "ADA"} -> "LOW"
    [] OTHER -> "MEDIUM"

GetLiquidity(symbol, platform) ==
  CASE symbol \in {"ETH", "ADA"} -> "HIGH"
    [] OTHER -> "MEDIUM"

GetCompoundFrequency(platform) ==
  CASE platform \in {"Lido", "Rocket Pool", "Binance", "Cardano Pool"} -> "DAILY"
    [] OTHER -> "WEEKLY"

\* getFees: fees[platform] || 10, so the 0 of Cardano Pool reads as 10
GetFees(platform) ==
  CASE platform = "Lido" -> 10
    [] platform = "Rocket Pool" -> 15
    [] platform = "Coinbase" -> 25
    [] platform = "Kraken" -> 20
    [] platform = "Binance" -> 5
    [] OTHER -> 10

\* generateStakingOpportunity
GenerateStakingOpportunity(symbol, platform) ==
  [symbol |-> symbol, platform |-> platform,
   apy |-> Max2(5000000, Min2(500000000,
             GetBaseAPY(symbol) * GetPlatformMultiplier(platform)
               * PlatformRisk(platform) * AssetRisk(symbol))),
   minStake |-> GetMinStake(symbol, platform),
   maxStake |-> GetMaxStake(symbol, platform),
   lockPeriod |-> GetLockPeriod(symbol, platform),
   riskLevel |-> GetRiskLevel(symbol, platform),
   liquidity |-> GetLiquidity(symbol, platform),
   compoundFrequency |-> GetCompoundFrequency(platform),
   fees |-> GetFees(platform)]

\* this.opportunities.get(symbol), for a symbol that has an entry
OpportunitiesOf(symbol) ==
  LET platforms == GetStakingPlatforms(symbol)
      all == [i \in DOMAIN platforms |-> GenerateStakingOpportunity(symbol, platforms[i])]
  IN SubSeq(all, 1, Min2(Len(all), MaxOppsPerSymbol))

\* updateStakingOpportunities: the symbols with an entry, in insertion order
RECURSIVE UpdateStakingOpportunities(_, _)
UpdateStakingOpportunities(symbols, marketData) ==
  IF marketData = <<>> THEN symbols
  ELSE UpdateStakingOpportunities(
         IF Head(marketData).symbol \in Range(symbols) THEN symbols
         ELSE Append(symbols, Head(marketData).symbol),
         Tail(marketData))

\* calculateStakingScore
CalculateStakingScore(opportunity, marketData) ==
  LET s0 == opportunity.apy \div 100
      s1 == CASE opportunity.riskLevel = "LOW" -> (s0 * 12) \div 10
              [] opportunity.riskLevel = "HIGH" -> (s0 * 7) \div 10
              [] OTHER -> s0
      s2 == CASE opportunity.liquidity = "HIGH" -> (s1 * 11) \div 10
              [] opportunity.liquidity = "LOW" -> (s1 * 8) \div 10
              [] OTHER -> s1
      s3 == (s2 * (100 - opportunity.fees)) \div 100
      s4 == IF opportunity.lockPeriod > 0
              THEN IF 2 * opportunity.lockPeriod >= 365 THEN s3 \div 2
                   ELSE (s3 * (365 - opportunity.lockPeriod)) \div 365
            ELSE s3
      s5 == CASE opportunity.compoundFrequency = "DAILY" -> (s4 * 11) \div 10
              [] opportunity.compoundFrequency = "MONTHLY" -> (s4 * 9) \div 10
              [] OTHER -> s4
      k  == Find(marketData, opportunity.symbol)
      s6 == IF k = 0 THEN s5
            ELSE IF marketData[k].change24h > 0 - 2 /\ marketData[k].change24h < 5
              THEN (s5 * 11) \div 10
            ELSE IF marketData[k].change24h < 0 - 10 THEN (s5 * 8) \div 10
            ELSE s5
  IN Max2(0, s6)

\* The allocation that would have no 30% cap and no regard for what is left
UncappedAllocation(remainingCapital, opportunity, totalCapital) ==
  opportunity.maxStake

\* Math.min(remainingCapital, opp.maxStake || remainingCapital, totalCapital * 0.3)
MaxAllocation(remainingCapital, opportunity, totalCapital) ==
  Min2(Min2(remainingCapital,
            IF opportunity.maxStake # 0 THEN opportunity.maxStake ELSE remainingCapital),
       (3 * totalCapital) \div 10)

\* The forEach of calculateOptimalAllocations over the sorted opportunities
RECURSIVE Allocate(_, _, _, _)
Allocate(opps, i, remainingCapital, totalCapital) ==
  IF i > Len(opps) \/ remainingCapital <= 0 THEN <<>>
  ELSE LET maxAllocation == MaxAllocation(remainingCapital, opps[i], totalCapital)
       IN IF maxAllocation >= opps[i].minStake
            THEN << [symbol |-> opps[i].symbol, platform |-> opps[i].platform,
                     amount |-> maxAllocation, apy |-> opps[i].apy,
                     priority |-> (opps[i].score + 5000) \div 10000] >>
                 \o Allocate(opps, i + 1, remainingCapital - maxAllocation, totalCapital)
          ELSE Allocate(opps, i + 1, remainingCapital, totalCapital)

\* calculateOptimalAllocations
CalculateOptimalAllocations(bot, marketData, config) ==
  LET totalCapital == 10 * bot.allocation
      currentStaked == SumSeq([i \in DOMAIN bot.positions |->
                                 bot.positions[i].stakedAmount])
      stored == ConcatAll([i \in DOMAIN bot.opportunities |->
                             OpportunitiesOf(bot.opportunities[i])])
      enabled == SelectSeq(stored, LAMBDA o : o.symbol \in Range(config.enabledAssets))
      scored == [i \in DOMAIN enabled |->
                   [symbol |-> enabled[i].symbol, platform |-> enabled[i].platform,
                    apy |-> enabled[i].apy, minStake |-> enabled[i].minStake,
                    maxStake |-> enabled[i].maxStake,
                    score |-> CalculateStakingScore(enabled[i], marketData)]]
  IN Allocate(SortByScore(scored), 1, totalCapital - currentStaked, totalCapital)

\* calculateStakingConfidence
CalculateStakingConfidence(allocation) ==
  Min2(95, 70 + (IF allocation.apy > 150000000 THEN 15
                 ELSE IF allocation.apy > 100000000 THEN 10
                 ELSE IF allocation.apy > 50000000 THEN 5 ELSE 0)
              + allocation.priority * 2)

\* A staking position map is keyed by `${symbol}-${platform}` or by the symbol
KeyIndex(positions, key) ==
  LET S == { i \in DOMAIN positions : positions[i].key = key }
  IN IF S = {} THEN 0 ELSE SetMin(S)

StakingKey(symbol, platform) == [symbol |-> symbol, platform |-> platform]

\* marketData.find(d => d.symbol === symbol)?.price || 0
PriceOrZero(marketData, symbol) ==
  IF Find(marketData, symbol) = 0 THEN 0 ELSE marketData[Find(marketData, symbol)].price

\* A staking signal: amount is quantity * price where the symbol has a price
StakingSignal(action, symbol, confidence, price, amount, kind) ==
  [action |-> action, symbol |-> symbol, confidence |-> confidence, price |-> price,
   amount |-> amount, kind |-> kind]

\* optimizeStakingAllocation, given the allocations
OptimizeStakingAllocation(bot, allocations, marketData) ==
  LET signalOf(a) ==
        LET k == KeyIndex(bot.positions, StakingKey(a.symbol, a.platform))
        IN IF k = 0
             THEN << StakingSignal("BUY", a.symbol, CalculateStakingConfidence(a),
                                   PriceOrZero(marketData, a.symbol), a.amount,
                                   "allocate") >>
           ELSE IF 10 * Abs(bot.positions[k].stakedAmount - a.amount) > a.amount
             THEN << StakingSignal(IF a.amount - bot.positions[k].stakedAmount > 0
                                     THEN "BUY" ELSE "SELL",
                                   a.symbol, 75, PriceOrZero(marketData, a.symbol),
                                   Abs(a.amount - bot.positions[k].stakedAmount),
                                   "rebalance") >>
           ELSE <<>>
  IN ConcatAll([i \in DOMAIN allocations |-> signalOf(allocations[i])])

\* getCompoundIntervalMs, in minutes
CompoundIntervalMin(frequency) ==
  CASE frequency = "DAILY" -> 1440
    [] frequency = "MONTHLY" -> 30 * 1440
    [] OTHER -> 7 * 1440

\* shouldCompound: estimatedRewards = stakedAmount * apy / 365 / 100 is positive
\* exactly when stakedAmount is
ShouldCompound(position, clock) ==
  /\ clock - position.startDate > CompoundIntervalMin(position.compoundFrequency)
  /\ position.stakedAmount > 0

\* manageExistingPositions: the positions after the unlocking, and the signals
ManageExistingPositions(positions, marketData, clock) ==
  LET unlocks(p) == p.status = "ACTIVE" /\ clock >= p.endDate
      after == [i \in DOMAIN positions |->
                  IF unlocks(positions[i])
                    THEN [positions[i] EXCEPT !.status = "UNLOCKED"] ELSE positions[i]]
      signalsOf(i) ==
        (IF unlocks(positions[i])
           THEN << StakingSignal("SELL", positions[i].symbol, 100,
                                 PriceOrZero(marketData, positions[i].symbol),
                                 positions[i].stakedAmount, "unlock") >>
         ELSE <<>>)
        \o (IF after[i].status = "ACTIVE" /\ ShouldCompound(after[i], clock)
              THEN << StakingSignal("BUY", positions[i].symbol, 85,
                                    PriceOrZero(marketData, positions[i].symbol),
                                    0, "compound") >>
            ELSE <<>>)
  IN [positions |-> after,
      signals |-> ConcatAll([i \in DOMAIN positions |-> signalsOf(i)])]

\* checkEmergencyUnstaking: currentValue and totalInvested are the same product,
\* so pnlPercentage is 0 (NaN for a position of value 0)
CheckEmergencyUnstaking(positions, marketData, config) ==
  IF config.stopLoss <= 0 THEN <<>>
  ELSE LET due == SelectSeq(positions, LAMBDA p :
                    /\ p.status = "ACTIVE"
                    /\ Find(marketData, p.symbol) # 0
                    /\ p.stakedAmount * PriceOrZero(marketData, p.symbol) # 0
                    /\ 0 <= 0 - config.stopLoss)
       IN [i \in DOMAIN due |->
             StakingSignal("SELL", due[i].symbol, 100,
                           PriceOrZero(marketData, due[i].symbol),
                           due[i].stakedAmount, "emergency")]

\* analyzeMarket(marketData) at wall-clock time clock
StakingAnalyzeMarket(bot0, marketData, clock, config) ==
  LET bot1 == [bot0 EXCEPT !.opportunities =
                 UpdateStakingOpportunities(bot0.opportunities, marketData)]
      optimizes == clock - bot1.lastOptimization > OptimizationPeriodMin
      allocations == IF optimizes THEN CalculateOptimalAllocations(bot1, marketData, config)
                     ELSE <<>>
      managed == ManageExistingPositions(bot1.positions, marketData, clock)
  IN [bot |-> [bot1 EXCEPT !.positions = managed.positions,
                           !.lastOptimization = IF optimizes THEN clock ELSE @],
      optimized |-> optimizes,
      allocations |-> allocations,
      signals |-> OptimizeStakingAllocation(bot1, allocations, marketData)
                    \o managed.signals
                    \o CheckEmergencyUnstaking(managed.positions, marketData, config)]

\* findBestOpportunity(symbol): 0 for null, else the index of the best one
RECURSIVE BestOpportunityFrom(_, _, _)
BestOpportunityFrom(opps, best, i) ==
  IF i > Len(opps) THEN best
  ELSE BestOpportunityFrom(opps,
         IF CalculateStakingScore(opps[i], <<>>) > CalculateStakingScore(opps[best], <<>>)
           THEN i ELSE best,
         i + 1)

FindBestOpportunity(bot, symbol) ==
  IF symbol \notin Range(bot.opportunities) THEN 0
  ELSE BestOpportunityFrom(OpportunitiesOf(symbol), 1, 2)

\* updatePosition(symbol, action, quantity, price, platform?): quantity * price
\* is given in tenths as amount
StakingUpdatePosition(bot, symbol, action, amount, platform, clock) ==
  LET key == StakingKey(symbol, platform)
      k == KeyIndex(bot.positions, key)
      b == FindBestOpportunity(bot, symbol)
  IN IF action = "BUY" THEN
       IF b = 0 THEN bot.positions
       ELSE IF k # 0
         THEN [bot.positions EXCEPT ![k].stakedAmount = @ + amount]
       ELSE LET opportunity == OpportunitiesOf(symbol)[b]
            IN Append(bot.positions,
                 [key |-> key, symbol |-> symbol, platform |-> opportunity.platform,
                  stakedAmount |-> amount, startDate |-> clock,
                  endDate |-> clock + opportunity.lockPeriod * 1440,
                  compoundFrequency |-> opportunity.compoundFrequency,
                  status |-> "ACTIVE"])
     ELSE SelectSeq(bot.positions, LAMBDA p : p.key # key)

NoStakingCall ==
  [called |-> FALSE, optimized |-> FALSE, allocations |-> <<>>, signals |-> <<>>,
   stakedBefore |-> 0, applied |-> 0, activeBefore |-> {},
   observed |-> [s \in StakingSymbols |-> 0],
   entryPrice |-> [s \in StakingSymbols |-> 0]]

StakingNew(allocation) ==
  [allocation |-> allocation, opportunities |-> <<>>, positions |-> <<>>,
   lastOptimization |-> 0]

\* signal.quantity of a staking signal, in thousandths: amount / price
SignalQuantityOfStake(signal) ==
  (100 * signal.amount) \div (IF signal.price # 0 THEN signal.price ELSE 1)

\* One analyzeMarket call
StakingAnalyze(marketData) ==
  /\ LET r == StakingAnalyzeMarket(staking, marketData, now,
                                   [HarnessConfig EXCEPT !.allocation = staking.allocation])
     IN /\ staking' = r.bot
        /\ stakingCall' =
             [called |-> TRUE, optimized |-> r.optimized, allocations |-> r.allocations,
              signals |-> r.signals,
              stakedBefore |-> SumSeq([i \in DOMAIN staking.positions |->
                                         staking.positions[i].stakedAmount]),
              applied |-> 0,
              activeBefore |-> { staking.positions[i].symbol :
                                   i \in { j \in DOMAIN staking.positions :
                                             staking.positions[j].status = "ACTIVE" } },
              observed |-> [s \in StakingSymbols |-> PriceOrZero(marketData, s)],
              entryPrice |-> stakingCall.entryPrice]
  /\ UNCHANGED <<now, stakingTrades>>
  /\ UNCHANGED exceptStaking

\* One updatePosition call
StakingUpdate(symbol, action, amount, platform) ==
  /\ stakingTrades < MaxStakingTrades
  /\ stakingTrades' = stakingTrades + 1
  /\ staking' = [staking EXCEPT !.positions =
                   StakingUpdatePosition(staking, symbol, action, amount, platform, now)]
  /\ UNCHANGED <<now, stakingCall>>
  /\ UNCHANGED exceptStaking

\* Bound of the signals a behaviour executes
MaxStakingApplied == 3

\* The next signal of the last analyzeMarket call is executed as testAlgorithm
\* does it: updatePosition(signal.symbol, signal.action, quantity, signal.price)
\* without a platform.  entryPrice keeps the price a symbol was first staked at
StakingApplySignal ==
  /\ stakingCall.applied < Len(stakingCall.signals)
  /\ stakingTrades < MaxStakingApplied
  /\ stakingTrades' = stakingTrades + 1
  /\ LET signal == stakingCall.signals[stakingCall.applied + 1]
         after == StakingUpdatePosition(staking, signal.symbol, signal.action,
                    (SignalQuantityOfStake(signal) * signal.price) \div 100,
                    NoPlatform, now)
         held(positions) == KeyIndex(positions, StakingKey(signal.symbol, NoPlatform)) # 0
     IN /\ staking' = [staking EXCEPT !.positions = after]
        /\ stakingCall' =
             [stakingCall EXCEPT
                !.applied = @ + 1,
                !.entryPrice[signal.symbol] =
                   IF ~held(after) THEN 0
                   ELSE IF held(staking.positions) THEN @ ELSE signal.price]
  /\ UNCHANGED now
  /\ UNCHANGED exceptStaking

\* Wall-clock time passes
StakingTick(minutes) ==
  /\ now + minutes <= MaxStakingNowMin
  /\ now' = now + minutes
  /\ UNCHANGED stakingVars
  /\ UNCHANGED exceptStaking

StakingIdle ==
  /\ staking = StakingNew(HarnessConfig.allocation)
  /\ stakingTrades = 0
  /\ stakingCall = NoStakingCall

----------------------------------------------------------------------------
(* CCIMarketBot *)

\* Program constants: cciConfig.period, and the history kept (period + maPeriod + 10)
CciPeriod == 20

CciMaxHistory == 35

CciSymbols == {"BTC", "ETH"}

CciNew == [positions |-> <<>>, historyLen |-> [s \in CciSymbols |-> 0]]

\* updatePriceHistory for every observation; the model keeps the lengths
CciPushHistory(historyLen, marketData) ==
  [s \in DOMAIN historyLen |->
     Min2(historyLen[s]
            + Cardinality({ i \in DOMAIN marketData : marketData[i].symbol = s }),
          CciMaxHistory)]

\* managePositions: refreshes currentPrice of the positions with an observation,
\* and returns no signal
CciManagePositions(positions, marketData) ==
  [i \in DOMAIN positions |->
     IF Find(marketData, positions[i].symbol) = 0 THEN positions[i]
     ELSE [positions[i] EXCEPT
             !.currentPrice = marketData[Find(marketData, positions[i].symbol)].price]]

\* analyzeMarket where history.length < period for every symbol, the range the
\* model's histories stay in: calculateCCI returns null and no signal is generated
CciAnalyzeMarket(bot, marketData) ==
  [bot |-> [positions |-> CciManagePositions(bot.positions, marketData),
            historyLen |-> CciPushHistory(bot.historyLen, marketData)],
   signals |-> <<>>]

\* updatePosition, with entryPrice the fraction entryNum / entryDen as in
\* MomentumUpdatePosition
CciUpdatePosition(positions, symbol, action, quantity, price) ==
  IF action = "BUY" THEN
    IF MapHas(positions, symbol) THEN
      LET cur == MapGet(positions, symbol)
          totalQuantity == cur.quantity + quantity
          g1 == Gcd(cur.quantity, cur.entryDen)
          valueNum == (cur.quantity \div g1) * cur.entryNum
                        + quantity * price * (cur.entryDen \div g1)
          den == (cur.entryDen \div g1) * totalQuantity
          g == Gcd(valueNum, den)
      IN MapSet(positions, [symbol |-> symbol, quantity |-> totalQuantity,
                            entryNum |-> valueNum \div g, entryDen |-> den \div g,
                            currentPrice |-> price])
    ELSE MapSet(positions, [symbol |-> symbol, quantity |-> quantity,
                            entryNum |-> price, entryDen |-> 1, currentPrice |-> price])
  ELSE IF MapHas(positions, symbol) THEN
    LET cur == MapGet(positions, symbol)
        remainingQuantity == cur.quantity - quantity
    IN IF ClosesPosition(remainingQuantity) THEN MapDelete(positions, symbol)
       ELSE MapSet(positions, [cur EXCEPT !.quantity = remainingQuantity,
                                          !.currentPrice = price])
  ELSE positions

----------------------------------------------------------------------------
(* CCIMarketBot with its indicator *)

\* Program constants of cciConfig
CciMaPeriod == 5

TrendConfirmationPeriod == 10

\* A CCI value is kept as the pair [num, den], den > 0, of value
\* (num / den) / (0.015 * 60) * ... = (4000 / 3) * (num / den): num is
\* period * (high + low + close) of the latest entry less the sum of
\* high + low + close over the window, den the sum of the absolute values of that
\* difference over the window.  0 is [num |-> 0, den |-> 1].
CciZero == [num |-> 0, den |-> 1]

\* updatePriceHistory: the entry pushed for an observation, cci 0 until computed
CciEntry(data) ==
  [high |-> data.high24h, low |-> data.low24h, close |-> data.price,
   volume |-> data.volume, cci |-> CciZero]

\* updatePriceHistory: push, and shift once beyond period + maPeriod + 10
UpdatePriceHistory(history, data) ==
  LET pushed == Append(history, CciEntry(data))
  IN IF Len(pushed) > CciMaxHistory THEN Tail(pushed) ELSE pushed

\* history.slice(-n)
SliceLast(history, n) ==
  IF Len(history) <= n THEN history
  ELSE SubSeq(history, Len(history) - n + 1, Len(history))

\* computeCCI: (currentTP - smaTP) / (0.015 * meanDeviation), 0 when the mean
\* deviation is 0
ComputeCCI(history) ==
  LET recent == SliceLast(history, CciPeriod)
      tp3 == [i \in DOMAIN recent |-> recent[i].high + recent[i].low + recent[i].close]
      sum3 == SumSeq(tp3)
      deviation == SumSeq([i \in DOMAIN recent |-> Abs(CciPeriod * tp3[i] - sum3)])
  IN IF deviation = 0 THEN CciZero
     ELSE [num |-> CciPeriod * tp3[Len(recent)] - sum3, den |-> deviation]

\* cci >= level and cci <= level for a level in whole CCI points:
\* (4000 / 3) * num / den against level
CciAtLeast(value, level) == 4000 * value.num >= 3 * level * value.den

CciAtMost(value, level) == 4000 * value.num <= 3 * level * value.den

CciLess(a, b) == a.num * b.den < b.num * a.den

\* determineCCISignal
DetermineCCISignal(value) ==
  IF CciAtLeast(value, 200) THEN "OVERBOUGHT"
  ELSE IF CciAtMost(value, 0 - 200) THEN "OVERSOLD"
  ELSE IF CciAtLeast(value, 100) THEN "OVERBOUGHT"
  ELSE IF CciAtMost(value, 0 - 100) THEN "OVERSOLD"
  ELSE "NEUTRAL"

\* determineTrend: the price change over the last ten closes against 5 percent,
\* with the change of the nonzero CCI values over the same entries
DetermineTrend(history) ==
  IF Len(history) < TrendConfirmationPeriod THEN "SIDEWAYS"
  ELSE
    LET recent == SliceLast(history, TrendConfirmationPeriod)
        firstPrice == recent[1].close
        lastPrice == recent[Len(recent)].close
        cciValues == SelectSeq([i \in DOMAIN recent |-> recent[i].cci],
                               LAMBDA c : c.num # 0)
    IN IF Len(cciValues) < 2 THEN "SIDEWAYS"
       ELSE IF 100 * (lastPrice - firstPrice) > 5 * firstPrice
                 /\ CciLess(cciValues[1], cciValues[Len(cciValues)]) THEN "BULLISH"
       ELSE IF 100 * (lastPrice - firstPrice) < 0 - 5 * firstPrice
                 /\ CciLess(cciValues[Len(cciValues)], cciValues[1]) THEN "BEARISH"
       ELSE "SIDEWAYS"

\* calculateTrendStrength(history) > 60: with x = 0..9 the slope is S / 825,
\* S = 10 * sumXY - 45 * sumY, ssRes = R / 825^2 and ssTot = T / 100, so that
\* rSquared * 100 > 60 is ssTot > 0 and 2 * R < 5445 * T
HasStrongTrend(history) ==
  IF Len(history) < TrendConfirmationPeriod THEN FALSE
  ELSE
    LET recent == SliceLast(history, TrendConfirmationPeriod)
        prices == [i \in DOMAIN recent |-> recent[i].close]
        sumY == SumSeq(prices)
        sumXY == SumSeq([i \in DOMAIN prices |-> (i - 1) * prices[i]])
        S == 10 * sumXY - 45 * sumY
        R == SumSeq([i \in DOMAIN prices |->
                       (825 * prices[i] - S * (i - 1)) * (825 * prices[i] - S * (i - 1))])
        T == SumSeq([i \in DOMAIN prices |->
                       (10 * prices[i] - sumY) * (10 * prices[i] - sumY)])
    IN T > 0 /\ 2 * R < 5445 * T

\* calculateCCI: null below the period, otherwise the latest entry receives its
\* cci and the derived data are returned
CalculateCCI(history) ==
  IF Len(history) < CciPeriod THEN [ready |-> FALSE, history |-> history]
  ELSE
    LET value == ComputeCCI(history)
        updated == [history EXCEPT ![Len(history)].cci = value]
    IN [ready |-> TRUE, history |-> updated, cci |-> value,
        price |-> history[Len(history)].close,
        cciSignal |-> DetermineCCISignal(value),
        trend |-> DetermineTrend(updated),
        strong |-> HasStrongTrend(updated)]

\* isVolumeConfirmed: the latest volume against 1.2 times the mean of the last ten
IsVolumeConfirmed(history) ==
  IF Len(history) < 10 THEN FALSE
  ELSE LET recent == SliceLast(history, 10)
           total == SumSeq([i \in DOMAIN recent |-> recent[i].volume])
       IN 100 * recent[Len(recent)].volume >= 12 * total

RECURSIVE CciMin(_)
CciMin(values) ==
  IF Len(values) = 1 THEN values[1]
  ELSE LET rest == CciMin(Tail(values))
       IN IF CciLess(rest, values[1]) THEN rest ELSE values[1]

RECURSIVE CciMax(_)
CciMax(values) ==
  IF Len(values) = 1 THEN values[1]
  ELSE LET rest == CciMax(Tail(values))
       IN IF CciLess(values[1], rest) THEN rest ELSE values[1]

\* checkBullishDivergence: over the last twenty entries, the last ten make a
\* lower price low and a higher CCI low than the first ten
CheckBullishDivergence(history) ==
  IF Len(history) < 20 THEN FALSE
  ELSE LET recent == SliceLast(history, 20)
           prices == [i \in DOMAIN recent |-> recent[i].close]
           cciValues == [i \in DOMAIN recent |-> recent[i].cci]
       IN /\ SetMin(Range(SubSeq(prices, 11, 20))) < SetMin(Range(SubSeq(prices, 1, 10)))
          /\ CciLess(CciMin(SubSeq(cciValues, 1, 10)), CciMin(SubSeq(cciValues, 11, 20)))

\* checkBearishDivergence: a higher price high and a lower CCI high
CheckBearishDivergence(history) ==
  IF Len(history) < 20 THEN FALSE
  ELSE LET recent == SliceLast(history, 20)
           prices == [i \in DOMAIN recent |-> recent[i].close]
           cciValues == [i \in DOMAIN recent |-> recent[i].cci]
       IN /\ SetMax(Range(SubSeq(prices, 11, 20))) > SetMax(Range(SubSeq(prices, 1, 10)))
          /\ CciLess(CciMax(SubSeq(cciValues, 11, 20)), CciMax(SubSeq(cciValues, 1, 10)))

\* position.pnlPercentage: every write of it (updatePosition, managePositions)
\* stores (currentPrice - entryPrice) / entryPrice * 100 with the currentPrice
\* written in the same statement, so the stored value is that of the stored
\* currentPrice.  The two comparisons generateSellSignal makes with it:
StoredLossAtLeast(position, percent) ==
  100 * (position.currentPrice * position.entryDen - position.entryNum)
    <= 0 - percent * position.entryNum

StoredGainAtLeast(position, percent) ==
  100 * (position.currentPrice * position.entryDen - position.entryNum)
    >= percent * position.entryNum

\* generateBuySignal with config.riskLevel MODERATE: quantity in thousandths
GenerateBuySignal(config, symbol, cciData, history) ==
  LET isOversold == cciData.cciSignal = "OVERSOLD"
      isExtremeOversold == CciAtMost(cciData.cci, 0 - 200)
      isBullishTrend == cciData.trend = "BULLISH"
      hasBullishDivergence == CheckBullishDivergence(history)
      confidence ==
        IF isExtremeOversold /\ hasBullishDivergence /\ cciData.strong THEN 90
        ELSE IF isOversold /\ isBullishTrend /\ cciData.strong THEN 80
        ELSE IF isOversold /\ hasBullishDivergence THEN 70
        ELSE IF isOversold THEN 60
        ELSE 0
  IN IF confidence >= 60
     THEN << [action |-> "BUY", symbol |-> symbol, confidence |-> Min2(95, confidence),
              price |-> cciData.price, kind |-> "oversold",
              quantity |-> (1000 * config.allocation) \div (config.maxPositions * cciData.price)] >>
     ELSE <<>>

\* generateSellSignal: stop-loss, then take-profit, then the CCI conditions
GenerateSellSignal(config, symbol, cciData, history, position) ==
  LET isOverbought == cciData.cciSignal = "OVERBOUGHT"
      isExtremeOverbought == CciAtLeast(cciData.cci, 200)
      isBearishTrend == cciData.trend = "BEARISH"
      hasBearishDivergence == CheckBearishDivergence(history)
      confidence ==
        IF isExtremeOverbought /\ hasBearishDivergence /\ isBearishTrend THEN 90
        ELSE IF isOverbought /\ isBearishTrend THEN 80
        ELSE IF isOverbought /\ hasBearishDivergence THEN 75
        ELSE IF isOverbought THEN 65
        ELSE 0
      sell(kind, conf) ==
        << [action |-> "SELL", symbol |-> symbol, confidence |-> conf,
            price |-> cciData.price, kind |-> kind, quantity |-> position.quantity] >>
  IN IF StoredLossAtLeast(position, config.stopLoss) THEN sell("stop-loss", 100)
     ELSE IF config.takeProfit # 0 /\ StoredGainAtLeast(position, config.takeProfit)
       THEN sell("take-profit", 90)
     ELSE IF confidence >= 65 THEN sell("overbought", Min2(95, confidence))
     ELSE <<>>

\* generateCCISignals with both branches taken whatever the position
SignalsIgnoringPosition(config, positions, symbol, cciData, history) ==
  IF ~IsVolumeConfirmed(history) THEN <<>>
  ELSE GenerateBuySignal(config, symbol, cciData, history)
         \o (IF MapHas(positions, symbol)
             THEN GenerateSellSignal(config, symbol, cciData, history,
                                     MapGet(positions, symbol))
             ELSE <<>>)

\* generateCCISignals: nothing without volume confirmation, a BUY candidate
\* without a position, a SELL candidate with one
GenerateCCISignals(config, positions, symbol, cciData, history) ==
  IF ~IsVolumeConfirmed(history) THEN <<>>
  ELSE IF ~MapHas(positions, symbol)
    THEN GenerateBuySignal(config, symbol, cciData, history)
  ELSE GenerateSellSignal(config, symbol, cciData, history, MapGet(positions, symbol))

\* The symbol whose history the model keeps, and the bounds of its inputs:
\* prices with high24h = low24h = price and volumes
CciBotSymbol == "BTC"

CciBotPrices == {4, 5, 6}

CciBotVolumes == {1000, 2000}

MaxCciCalls == 3

MaxCciTrades == 1

CciObservation(price, volume) ==
  [symbol |-> CciBotSymbol, price |-> price, high24h |-> price, low24h |-> price,
   volume |-> volume]

NoCciCall ==
  [called |-> FALSE, ready |-> FALSE, volumeConfirmed |-> FALSE, price |-> 0,
   positionsBefore |-> <<>>, signals |-> <<>>]

NoCciBot ==
  [positions |-> <<>>, history |-> <<>>, calls |-> 0, trades |-> 0, call |-> NoCciCall]

\* A history of period - 1 equal entries: the bot one observation short of its
\* first CCI value
FlatHistory ==
  [i \in 1..(CciPeriod - 1) |-> CciEntry(CciObservation(5, 1000))]

\* analyzeMarket with one observation of the symbol: history, CCI, signals, and
\* then managePositions
CciBotAnalyze(price, volume) ==
  /\ cciBot.calls < MaxCciCalls
  /\ LET data == CciObservation(price, volume)
         pushed == UpdatePriceHistory(cciBot.history, data)
         cciData == CalculateCCI(pushed)
         signals == IF cciData.ready
                    THEN GenerateCCISignals(HarnessConfig, cciBot.positions,
                                            CciBotSymbol, cciData, cciData.history)
                    ELSE <<>>
     IN cciBot' = [positions |-> CciManagePositions(cciBot.positions, <<data>>),
                   history |-> cciData.history,
                   calls |-> cciBot.calls + 1,
                   trades |-> cciBot.trades,
                   call |-> [called |-> TRUE, ready |-> cciData.ready,
                             volumeConfirmed |-> IsVolumeConfirmed(cciData.history),
                             price |-> price,
                             positionsBefore |-> cciBot.positions,
                             signals |-> signals]]
  /\ UNCHANGED <<riskVars, now, momentumVars, dcaVars, stakingVars, ledgerVars, harness,
                 instance, evaluation, histories>>

\* updatePosition(symbol, action, quantity, price) on the bot
CciBotTrade(action, price) ==
  /\ cciBot.trades < MaxCciTrades
  /\ cciBot' = [cciBot EXCEPT
                  !.positions = CciUpdatePosition(cciBot.positions, CciBotSymbol,
                                                  action, 1000, price),
                  !.trades = cciBot.trades + 1]
  /\ UNCHANGED <<riskVars, now, momentumVars, dcaVars, stakingVars, ledgerVars, harness,
                 instance, evaluation, histories>>

----------------------------------------------------------------------------
(* The position ledgers under updatePosition calls *)

Algorithms == <<"momentum", "dca", "staking", "cci">>

\* Bounds of the ledger inputs: quantities in thousandths
MaxLedgerTrades == 4

LedgerSymbols == {"ETH"}

LedgerQuantities == {1, 1500}

LedgerPrices == {100, 125}

\* The positions of the driven bot
LedgerPositions ==
  CASE ledger.bot = "momentum" -> momentum.positions
    [] ledger.bot = "dca" -> dca.positions
    [] ledger.bot = "staking" -> staking.positions
    [] OTHER -> cci.positions

LedgerHolds(symbol) ==
  \E i \in DOMAIN LedgerPositions : LedgerPositions[i].symbol = symbol

\* updatePosition(symbol, action, quantity, price) on the driven bot; the staking
\* bot gets quantity * price in tenths
LedgerTrade(symbol, action, quantity, price) ==
  /\ ledger.count < MaxLedgerTrades
  /\ ledger' = [ledger EXCEPT
                  !.count = @ + 1,
                  !.log = LastN(Append(@, [symbol |-> symbol, action |-> action,
                                           quantity |-> quantity, price |-> price,
                                           held |-> LedgerHolds(symbol)]), 2)]
  /\ momentum' = IF ledger.bot # "momentum" THEN momentum
                 ELSE [momentum EXCEPT !.positions =
                         MomentumUpdatePosition(@, symbol, action, quantity, price)]
  /\ dca' = IF ledger.bot # "dca" THEN dca
            ELSE [dca EXCEPT !.positions =
                    DcaUpdatePosition(@, symbol, action, quantity, price, now)]
  /\ staking' = IF ledger.bot # "staking" THEN staking
                ELSE [staking EXCEPT !.positions =
                        StakingUpdatePosition(staking, symbol, action,
                                              (quantity * price) \div 100,
                                              NoPlatform, now)]
  /\ cci' = IF ledger.bot # "cci" THEN cci
            ELSE [cci EXCEPT !.positions =
                    CciUpdatePosition(@, symbol, action, quantity, price)]
  /\ UNCHANGED <<riskVars, now, momentumTrades, momentumCall, dcaTrades, dcaCall,
                 dcaFeed, stakingTrades, stakingCall, harnessVars>>

\* The staking bot learns its opportunities from an analyzeMarket call
LedgerObserve(marketData) ==
  /\ ledger.bot = "staking"
  /\ StakingAnalyze(marketData)

LedgerIdle ==
  /\ cci = CciNew
  /\ ledger = [bot |-> "momentum", count |-> 0, log |-> <<>>]

----------------------------------------------------------------------------
(* AlgorithmTester *)

\* Bound of the scenarios: the observations of one scenario
MaxScenarioLen == 2

ScenarioCount == 2

HarnessSymbols == {"BTC"}

HarnessPrices == {100, 125}

HarnessVolumes == {0, 1000}

HarnessObs == [symbol : HarnessSymbols, price : HarnessPrices,
               volume : HarnessVolumes, change24h : {0}]

Scenarios == SeqsOf(HarnessObs, 1, MaxScenarioLen)

\* A drawdown in percent: NaN, or the fraction num / den in lowest terms
Percent(nan, num, den) ==
  IF nan THEN [nan |-> TRUE, num |-> 0, den |-> 1]
  ELSE [nan |-> FALSE, num |-> num \div Gcd(num, den), den |-> den \div Gcd(num, den)]

\* calculateCurrentDrawdown(currentValue), currentValue a PerfPoint
CalculateCurrentDrawdown(history, current) ==
  IF Len(history) < 2 THEN Percent(FALSE, 0, 1)
  ELSE IF PerfPeakIsNaN(history) \/ PerfPeak(history) <= 0 THEN Percent(FALSE, 0, 1)
  ELSE IF current.nan THEN Percent(TRUE, 0, 1)
  ELSE Percent(FALSE, 100 * (PerfPeak(history) - current.value), PerfPeak(history))

\* The forEach of calculateMaxDrawdown from entry i on, for values that are NaN
\* or not negative: peak is a PerfPoint, maxDrawdown a Percent before the * 100
RECURSIVE MaxDrawdownFrom(_, _, _, _)
MaxDrawdownFrom(history, i, peak, maxDrawdown) ==
  IF i > Len(history) THEN maxDrawdown
  ELSE LET point == history[i]
       IN IF ~point.nan /\ ~peak.nan /\ point.value > peak.value
            THEN MaxDrawdownFrom(history, i + 1, point, maxDrawdown)
          ELSE LET drawdown ==
                     IF point.nan \/ peak.nan \/ peak.value = 0
                       THEN Percent(TRUE, 0, 1)
                     ELSE Percent(FALSE, peak.value - point.value, peak.value)
                   larger ==
                     IF maxDrawdown.nan \/ drawdown.nan THEN Percent(TRUE, 0, 1)
                     ELSE IF drawdown.num * maxDrawdown.den
                               > maxDrawdown.num * drawdown.den
                       THEN drawdown
                     ELSE maxDrawdown
               IN MaxDrawdownFrom(history, i + 1, peak, larger)

\* calculateMaxDrawdown
CalculateMaxDrawdown(history) ==
  IF Len(history) < 2 THEN Percent(FALSE, 0, 1)
  ELSE LET m == MaxDrawdownFrom(history, 1, history[1], Percent(FALSE, 0, 1))
       IN Percent(m.nan, 100 * m.num, m.den)

\* calculateCVaR(0.95): the length of tailReturns, the divisor of its result;
\* 0 is returned before any division below ten entries
CvarTailLength(history) == (5 * (Len(history) - 1)) \div 100

\* calculatePortfolioVolatility: not a number, for lack of returns to average
\* or of a valuation to divide by
VolatilityUndefined(positions, marketData) ==
  Len(positions) # 0 /\ VolatilityIsNaN(positions, marketData)

\* calculateRiskMetrics(positions, marketData): the metrics that divide
RiskMetrics(history, positions, marketData) ==
  [historyLen |-> Len(history),
   maxDrawdown |-> CalculateMaxDrawdown(history),
   currentDrawdown |->
     CalculateCurrentDrawdown(history,
                              PerfPoint(PortfolioValueIsNaN(positions, marketData),
                                        PortfolioValue(positions, marketData))),
   cvarTailLength |-> CvarTailLength(history),
   volatilityUndefined |-> VolatilityUndefined(positions, marketData)]

\* One calculateRiskMetrics call, which changes nothing
CalculateRiskMetricsCall(positions, marketData) ==
  /\ ~validation.called
  /\ validation' = [called |-> TRUE, positions |-> positions,
                    metrics |-> RiskMetrics(performanceHistory, positions, marketData)]
  /\ UNCHANGED <<riskLimits, performanceHistory, marketHistoryLen>>
  /\ UNCHANGED exceptRisk

\* Performance histories of ten entries: flat, or rising at the end
TenPointHistories ==
  { [i \in 1..ConditionMinPoints |->
       PerfPoint(FALSE, IF i = ConditionMinPoints THEN last ELSE 8)] : last \in {8, 16} }

\* AlgorithmTester.calculatePortfolioValue, as a PerfPoint
TesterPortfolioValue(positions, marketData) ==
  PerfPoint(PortfolioValueIsNaN(positions, marketData),
            PortfolioValue(positions, marketData))

\* createBotInstance
CreateBotInstance(algorithm) ==
  CASE algorithm = "momentum" -> MomentumNew
    [] algorithm = "dca" -> DcaNew
    [] algorithm = "staking" -> StakingNew(HarnessConfig.allocation)
    [] OTHER -> CciNew

\* bot.analyzeMarket(currentData)
BotAnalyzeMarket(algorithm, bot, currentData, clock) ==
  CASE algorithm = "momentum" ->
         MomentumAnalyzeMarket(bot, currentData, clock, HarnessConfig)
    [] algorithm = "dca" ->
         DcaAnalyzeMarket(bot, currentData, clock, HarnessConfig, HarnessSchedule)
    [] algorithm = "staking" ->
         StakingAnalyzeMarket(bot, currentData, clock, HarnessConfig)
    [] OTHER -> CciAnalyzeMarket(bot, currentData)

\* signal.quantity in thousandths.  A DCA BUY is sized by applyDynamicSizing:
\* 1.2 times schedule.amount while the history is shorter than 10 and there is
\* no position, the only state the harness's DCA bot buys in
SignalQuantity(algorithm, bot, signal) ==
  CASE algorithm = "dca" ->
         IF signal.action = "BUY" THEN (1200 * HarnessSchedule.amount) \div signal.price
         ELSE MapGet(bot.positions, signal.symbol).totalQuantity
    [] algorithm = "staking" ->
         (100 * signal.amount) \div (IF signal.price # 0 THEN signal.price ELSE 1)
    [] OTHER -> signal.quantity

\* bot.updatePosition(signal.symbol, signal.action, quantity, signal.price)
BotUpdatePosition(algorithm, bot, signal, quantity, clock) ==
  CASE algorithm = "momentum" ->
         [bot EXCEPT !.positions =
            MomentumUpdatePosition(@, signal.symbol, signal.action, quantity, signal.price)]
    [] algorithm = "dca" ->
         [bot EXCEPT !.positions =
            DcaUpdatePosition(@, signal.symbol, signal.action, quantity, signal.price,
                              clock)]
    [] algorithm = "staking" ->
         [bot EXCEPT !.positions =
            StakingUpdatePosition(bot, signal.symbol, signal.action,
                                  (quantity * signal.price) \div 100, NoPlatform, clock)]
    [] OTHER ->
         [bot EXCEPT !.positions =
            CciUpdatePosition(@, signal.symbol, signal.action, quantity, signal.price)]

\* The signal as the harness reads it
TesterSignal(algorithm, bot, signal) ==
  [action |-> signal.action, symbol |-> signal.symbol, price |-> signal.price,
   quantity |-> SignalQuantity(algorithm, bot, signal)]

\* validation.adjustedQuantity || signal.quantity; the bots of the model keep
\* whole thousandths
TradeQuantity(signal, result) ==
  IF result.hasAdjusted /\ result.adjusted # Zero
    THEN DoubleTrunc(result.adjusted)
  ELSE signal.quantity

\* The body of `if (validation.approved)`: acc is the bot and the trades so far
ExecuteTrade(algorithm, acc, signal, quantity, clock) ==
  [bot |-> BotUpdatePosition(algorithm, acc.bot, signal, quantity, clock),
   trades |-> Append(acc.trades, [action |-> signal.action, symbol |-> signal.symbol,
                                  quantity |-> quantity])]

ProcessValidated(algorithm, acc, signal, result, clock) ==
  IF result.approved
    THEN ExecuteTrade(algorithm, acc, signal, TradeQuantity(signal, result), clock)
  ELSE acc

\* One iteration of the loop over the signals: positions is the array of the
\* step before, history the risk manager's performanceHistory
ProcessSignal(algorithm, acc, signal, positions, currentData, limits, history, clock) ==
  ProcessValidated(algorithm, acc, signal,
                   ValidateSignal(signal, positions, currentData, limits, history),
                   clock)

\* One iteration of the loop over the signals on a fresh momentum bot, keeping
\* the signal, what validateSignal returned and the trades pushed
TesterProcessSignal(signal, positions, currentData) ==
  /\ ~validation.called
  /\ \E result \in { ValidateSignal(signal, positions, currentData, riskLimits,
                                     performanceHistory) } :
       validation' =
         [called |-> TRUE, signal |-> signal, result |-> result,
          trades |-> ProcessValidated("momentum",
                                      [bot |-> CreateBotInstance("momentum"),
                                       trades |-> <<>>],
                                      signal, result, now).trades]
  /\ marketHistoryLen' = Min2(marketHistoryLen + Len(currentData), HistoryCap)
  /\ UNCHANGED <<riskLimits, performanceHistory>>
  /\ UNCHANGED exceptRisk

\* The loop over the signals of one step, from signal k on
RECURSIVE ProcessSignals(_, _, _, _, _, _, _, _, _)
ProcessSignals(algorithm, acc, signals, k, positions, currentData, limits, history, clock) ==
  IF k > Len(signals) THEN acc
  ELSE ProcessSignals(algorithm,
         ProcessSignal(algorithm, acc, TesterSignal(algorithm, acc.bot, signals[k]),
                       positions, currentData, limits, history, clock),
         signals, k + 1, positions, currentData, limits, history, clock)

\* The end of a step: the positions array is refilled from the bot, the
\* portfolio value is pushed, and every validateSignal call of the step has
\* pushed currentData onto marketHistory
EndStep(st, acc, validations, currentData) ==
  [bot |-> acc.bot, positions |-> acc.bot.positions,
   history |-> LastN(Append(st.history,
                            TesterPortfolioValue(acc.bot.positions, currentData)),
                     HistoryCap),
   marketHistoryLen |-> Min2(st.marketHistoryLen + validations * Len(currentData),
                             HistoryCap),
   trades |-> acc.trades,
   portfolioValue |-> TesterPortfolioValue(acc.bot.positions, currentData)]

\* One step of testAlgorithm, given what analyzeMarket returned
StepAfterAnalysis(algorithm, st, analysis, currentData, limits, clock) ==
  EndStep(st,
          ProcessSignals(algorithm, [bot |-> analysis.bot, trades |-> st.trades],
                         analysis.signals, 1, st.positions, currentData, limits,
                         st.history, clock),
          Len(analysis.signals), currentData)

Step(algorithm, st, currentData, limits, clock) ==
  StepAfterAnalysis(algorithm, st,
                    BotAnalyzeMarket(algorithm, st.bot, currentData, clock),
                    currentData, limits, clock)

\* The loop of testAlgorithm over the steps of the scenario, from step i on
RECURSIVE SimulateFrom(_, _, _, _, _, _)
SimulateFrom(algorithm, marketData, i, st, limits, clock) ==
  IF i > Len(marketData) THEN st
  ELSE SimulateFrom(algorithm, marketData, i + 1,
                    Step(algorithm, st, SubSeq(marketData, 1, i), limits, clock),
                    limits, clock)

\* `let portfolioValue = 10000`, in thousandths as the quantities are
StartingCapital == 10000

StartingValue == PerfPoint(FALSE, 1000 * StartingCapital)

\* calculatePerformanceMetrics: totalReturn = (finalValue - 10000) / 10000 * 100
TotalReturn(finalValue) ==
  Percent(finalValue.nan, finalValue.value - 1000 * StartingCapital, 10 * StartingCapital)

\* What testAlgorithm returns and leaves behind, from the state st after its loop
TestOutcome(algorithm, marketData, st) ==
  [result |->
     [algorithm |-> algorithm, trades |-> st.trades,
      portfolioValue |-> st.portfolioValue,
      totalReturn |-> TotalReturn(st.portfolioValue),
      maxDrawdown |-> CalculateMaxDrawdown(st.history),
      currentDrawdown |->
        CalculateCurrentDrawdown(st.history,
                                 TesterPortfolioValue(st.positions, marketData))],
   history |-> st.history,
   marketHistoryLen |-> st.marketHistoryLen]

\* testAlgorithm(algorithm, scenario) on a risk manager whose performanceHistory
\* is history: the trades and the drawdowns of the TestResult, and the risk
\* manager's histories afterwards
TestAlgorithm(algorithm, marketData, limits, history, historyLen, clock) ==
  TestOutcome(algorithm, marketData,
    SimulateFrom(algorithm, marketData, 1,
                 [bot |-> CreateBotInstance(algorithm), positions |-> <<>>,
                  history |-> history, marketHistoryLen |-> historyLen,
                  trades |-> <<>>, portfolioValue |-> StartingValue],
                 limits, clock))

\* The (scenario, algorithm) pair that runAlgorithmTests simulates n-th
PairScenario(n) == ((n - 1) \div Len(Algorithms)) + 1

PairAlgorithm(n) == Algorithms[((n - 1) % Len(Algorithms)) + 1]

\* A metric: NaN, or the number v (ratios in hundredths)
Metric(v) == [nan |-> FALSE, v |-> v]

NaNMetric == [nan |-> TRUE, v |-> 0]

\* m < t and m > t as JavaScript compares: both false on NaN
MetricBelow(m, t) == ~m.nan /\ m.v < t

MetricAbove(m, t) == ~m.nan /\ m.v > t

\* One block of evaluateTestResult: the points it adds and the issue it pushes
Verdict(good, bad, points, issue) ==
  IF good THEN [score |-> points, issues |-> <<>>]
  ELSE IF bad THEN [score |-> 0, issues |-> <<issue>>]
  ELSE [score |-> 0, issues |-> <<>>]

\* switch (scenario.name): the expectation of the three named scenarios
ScenarioVerdict(name, performance) ==
  CASE name = "Strong Bull Market" ->
         Verdict(~MetricBelow(performance.totalReturn, 10), TRUE, 20,
                 "Low returns in bull market")
    [] name = "Strong Bear Market" ->
         Verdict(~MetricBelow(performance.totalReturn, 0 - 5), TRUE, 20,
                 "Excessive losses in bear market")
    [] name = "Crash Scenario" ->
         Verdict(~MetricAbove(performance.maxDrawdown, 20), TRUE, 20,
                 "Excessive drawdown during crash")
    [] OTHER -> [score |-> 0, issues |-> <<>>]

\* The six general blocks, in the order of the code
GeneralVerdicts(performance, riskMetrics) ==
  << Verdict(MetricAbove(performance.sharpeRatio, 150),
             MetricBelow(performance.sharpeRatio, 50), 15, "Low Sharpe ratio"),
     Verdict(MetricAbove(performance.winRate, 60),
             MetricBelow(performance.winRate, 40), 15, "Low win rate"),
     Verdict(MetricBelow(performance.maxDrawdown, 10),
             MetricAbove(performance.maxDrawdown, 25), 15, "High maximum drawdown"),
     Verdict(MetricAbove(performance.profitFactor, 150),
             MetricBelow(performance.profitFactor, 100), 15, "Profit factor below 1.0"),
     Verdict(MetricBelow(riskMetrics.volatility, 15),
             MetricAbove(riskMetrics.volatility, 30), 10, "High portfolio volatility"),
     Verdict(MetricBelow(riskMetrics.correlation, 50),
             MetricAbove(riskMetrics.correlation, 80), 10, "High portfolio correlation") >>

RECURSIVE SumVerdicts(_, _)
SumVerdicts(verdicts, acc) ==
  IF verdicts = <<>> THEN acc
  ELSE SumVerdicts(Tail(verdicts),
                   [score |-> acc.score + Head(verdicts).score,
                    issues |-> acc.issues \o Head(verdicts).issues])

\* const passed = score >= 60 && issues.length <= 2
PassedOnScore(score, issueCount) == score >= 60

Passed(score, issueCount) == score >= 60 /\ issueCount <= 2

\* evaluateTestResult(algorithm, scenario, performance, riskMetrics)
EvaluateTestResult(name, performance, riskMetrics) ==
  LET total == SumVerdicts(GeneralVerdicts(performance, riskMetrics),
                           ScenarioVerdict(name, performance))
  IN [passed |-> Passed(total.score, Len(total.issues)),
      score |-> Min2(100, total.score),
      issues |-> total.issues]

\* The inputs of the evaluated calls
ScenarioNames == {"Strong Bull Market", "Strong Bear Market", "Crash Scenario",
                  "Sideways Market"}

PerformanceInputs ==
  [totalReturn : {Metric(0 - 10), Metric(0), Metric(12)},
   sharpeRatio : {Metric(0), Metric(100), Metric(200)},
   winRate : {Metric(30), Metric(50), Metric(70)},
   maxDrawdown : {Metric(5), Metric(15), Metric(22), Metric(30), NaNMetric},
   profitFactor : {Metric(50), Metric(120), Metric(200)}]

RiskMetricsInputs ==
  [volatility : {Metric(10), Metric(20), Metric(40), NaNMetric},
   correlation : {Metric(30), Metric(60), Metric(90)}]

NoEvaluation ==
  [scenario |-> "none", performance |-> CHOOSE x \in PerformanceInputs : TRUE,
   riskMetrics |-> CHOOSE x \in RiskMetricsInputs : TRUE, done |-> FALSE,
   result |-> [passed |-> FALSE, score |-> 0, issues |-> <<>>]]

Evaluate ==
  /\ ~evaluation.done
  /\ evaluation' =
       [evaluation EXCEPT
          !.done = TRUE,
          !.result = EvaluateTestResult(evaluation.scenario, evaluation.performance,
                                        evaluation.riskMetrics)]
  /\ UNCHANGED <<riskVars, now, momentumVars, dcaVars, stakingVars, ledgerVars, harness,
                 instance, histories, cciBot>>

\* One iteration of the inner loop of runAlgorithmTests
RunNextPair ==
  /\ harness.status = "running"
  /\ Len(harness.results) < ScenarioCount * Len(Algorithms)
  /\ \E r \in { TestAlgorithm(PairAlgorithm(Len(harness.results) + 1),
                     harness.scenarios[PairScenario(Len(harness.results) + 1)],
                     riskLimits, performanceHistory, marketHistoryLen, now) } :
       /\ harness' = [harness EXCEPT !.results = Append(@, r.result)]
       /\ performanceHistory' = r.history
       /\ marketHistoryLen' = r.marketHistoryLen
  /\ UNCHANGED <<riskLimits, validation, now, momentumVars, dcaVars, stakingVars,
                 ledgerVars, instance, evaluation, histories, cciBot>>

\* The strategy of the next pair throws in analyzeMarket or updatePosition.
\* testAlgorithm has no try block and runAlgorithmTests awaits it outside of
\* one, so the exception leaves both: nothing is pushed to results and the
\* promise of runAlgorithmTests rejects
RunNextPairThrows ==
  /\ harness.status = "running"
  /\ Len(harness.results) < ScenarioCount * Len(Algorithms)
  /\ harness' = [harness EXCEPT !.thrownAt = Len(harness.results) + 1,
                                !.status = "rejected"]
  /\ UNCHANGED <<riskVars, now, momentumVars, dcaVars, stakingVars, ledgerVars, instance, evaluation, histories, cciBot>>

\* The number of edge cases runEdgeCaseTests builds
EdgeCaseCount == 5

\* runEdgeCaseTests after the last pair: testEdgeCase catches what a bot
\* throws, so every edge case yields a result
RunEdgeCaseTests ==
  /\ harness.status = "running"
  /\ Len(harness.results) = ScenarioCount * Len(Algorithms)
  /\ harness.edgeCaseResults = 0
  /\ harness' = [harness EXCEPT !.edgeCaseResults = EdgeCaseCount]
  /\ UNCHANGED <<riskVars, now, momentumVars, dcaVars, stakingVars, ledgerVars, instance, evaluation, histories, cciBot>>

\* return results
RunReturn ==
  /\ harness.status = "running"
  /\ harness.edgeCaseResults = EdgeCaseCount
  /\ harness' = [harness EXCEPT !.status = "returned"]
  /\ UNCHANGED <<riskVars, now, momentumVars, dcaVars, stakingVars, ledgerVars, instance, evaluation, histories, cciBot>>

----------------------------------------------------------------------------
(* Construction of a strategy evaluator, and its first analyzeMarket call *)

\* The configs a caller may pass to a constructor
ConfigAllocations == {0 - 1, 0, 10000}

ConfigStopLosses == {0 - 5, 0, 5, 101}

ConfigMaxPositions == {0, 5}

ConfigAssets == {<<>>, <<"BTC", "ETH">>}

Configs ==
  [allocation : ConfigAllocations, stopLoss : ConfigStopLosses, takeProfit : {15},
   maxPositions : ConfigMaxPositions, enabledAssets : ConfigAssets]

NoInstance ==
  [constructed |-> FALSE, algorithm |-> "none", config |-> HarnessConfig,
   analyzed |-> FALSE, signals |-> <<>>]

\* new XBot(config): every constructor stores the config it is given and
\* returns; none of them looks at a field of it
NewBot(algorithm, config) ==
  [constructed |-> TRUE, algorithm |-> algorithm, config |-> config,
   analyzed |-> FALSE, signals |-> <<>>]

\* The bot's state right after construction
NewBotState(algorithm, config) ==
  CASE algorithm = "momentum" -> MomentumNew
    [] algorithm = "dca" -> DcaNew
    [] algorithm = "staking" -> StakingNew(config.allocation)
    [] OTHER -> CciNew

\* analyzeMarket of the constructed evaluator, with the config it holds
InstanceAnalyzeMarket(algorithm, config, marketData, clock) ==
  CASE algorithm = "momentum" ->
         MomentumAnalyzeMarket(NewBotState(algorithm, config), marketData, clock, config)
    [] algorithm = "dca" ->
         DcaAnalyzeMarket(NewBotState(algorithm, config), marketData, clock, config,
                          HarnessSchedule)
    [] algorithm = "staking" ->
         StakingAnalyzeMarket(NewBotState(algorithm, config), marketData, clock, config)
    [] OTHER -> CciAnalyzeMarket(NewBotState(algorithm, config), marketData)

Construct(algorithm, config) ==
  /\ ~instance.constructed
  /\ instance' = NewBot(algorithm, config)
  /\ UNCHANGED <<riskVars, now, momentumVars, dcaVars, stakingVars, ledgerVars, harness, evaluation, histories, cciBot>>

InstanceAnalyze(marketData) ==
  /\ instance.constructed
  /\ ~instance.analyzed
  /\ instance' = [instance EXCEPT
                    !.analyzed = TRUE,
                    !.signals = InstanceAnalyzeMarket(instance.algorithm, instance.config,
                                                      marketData, now).signals]
  /\ UNCHANGED <<riskVars, now, momentumVars, dcaVars, stakingVars, ledgerVars, harness, evaluation, histories, cciBot>>

----------------------------------------------------------------------------
(* The histories with their entries.  An entry is the number of its arrival. *)

\* Bounds: the pushes a behaviour makes to each history
MaxHistoryPushes == 3

\* MomentumTradingBot.analyzeMarket: history.push(data), and history.shift()
\* once the length is above 1000
MomentumHistoryPush(history, data) ==
  LET pushed == Append(history, data)
  IN IF Len(pushed) > HistoryCap THEN Tail(pushed) ELSE pushed

\* CCIMarketBot.updatePriceHistory: push, and shift above period + maPeriod + 10
CciHistoryPush(history, data) ==
  LET pushed == Append(history, data)
  IN IF Len(pushed) > CciMaxHistory THEN Tail(pushed) ELSE pushed

\* A push that never prunes
UnprunedPush(history, data) == Append(history, data)

\* DCATradingBot.analyzeMarket: push, and above MAX_HISTORY + PRUNE_CHUNK
\* history.splice(0, history.length - MAX_HISTORY)
DcaHistoryPush(history, data) ==
  LET pushed == Append(history, data)
  IN IF Len(pushed) > DcaMaxHistory + DcaPruneChunk
       THEN SubSeq(pushed, Len(pushed) - DcaMaxHistory + 1, Len(pushed))
     ELSE pushed

\* RiskManager.updatePerformanceHistory and updateMarketHistory: push the
\* entries, then slice(-1000) above 1000
SlicedPush(history, entries) ==
  LET pushed == history \o entries
  IN IF Len(pushed) > HistoryCap
       THEN SubSeq(pushed, Len(pushed) - HistoryCap + 1, Len(pushed))
     ELSE pushed

\* A history of n entries arrived in order
Arrived(n) == [items |-> [i \in 1..n |-> i], arrived |-> n, start |-> n, pruned |-> FALSE]

NoHistories ==
  [momentum |-> Arrived(0), cci |-> Arrived(0), dca |-> Arrived(0),
   performance |-> Arrived(0), market |-> Arrived(0)]

\* The histories two entries below the length at which each is cut
HistoriesNearCap ==
  [momentum |-> Arrived(HistoryCap - 2), cci |-> Arrived(CciMaxHistory - 2),
   dca |-> Arrived(DcaMaxHistory + DcaPruneChunk - 2),
   performance |-> Arrived(HistoryCap - 2), market |-> Arrived(HistoryCap - 2)]

\* The history h after n arrivals that leave it as items
AfterPush(h, items, n) ==
  [items |-> items, arrived |-> h.arrived + n, start |-> h.start,
   pruned |-> Len(items) < Len(h.items) + n]

HistoryFrame ==
  UNCHANGED <<riskVars, now, momentumVars, dcaVars, stakingVars, ledgerVars, harness,
              instance, evaluation, cciBot>>

MomentumObserve ==
  /\ histories.momentum.arrived < histories.momentum.start + MaxHistoryPushes
  /\ histories' = [histories EXCEPT !.momentum =
                     AfterPush(@, MomentumHistoryPush(@.items, @.arrived + 1), 1)]
  /\ HistoryFrame

CciObserve ==
  /\ histories.cci.arrived < histories.cci.start + MaxHistoryPushes
  /\ histories' = [histories EXCEPT !.cci =
                     AfterPush(@, CciHistoryPush(@.items, @.arrived + 1), 1)]
  /\ HistoryFrame

DcaObserve ==
  /\ histories.dca.arrived < histories.dca.start + MaxHistoryPushes
  /\ histories' = [histories EXCEPT !.dca =
                     AfterPush(@, DcaHistoryPush(@.items, @.arrived + 1), 1)]
  /\ HistoryFrame

PerformanceObserve ==
  /\ histories.performance.arrived < histories.performance.start + MaxHistoryPushes
  /\ histories' = [histories EXCEPT !.performance =
                     AfterPush(@, SlicedPush(@.items, <<@.arrived + 1>>), 1)]
  /\ HistoryFrame

\* updateMarketHistory(marketData) with n observations
MarketObserve(n) ==
  /\ histories.market.arrived + n <= histories.market.start + MaxHistoryPushes
  /\ histories' = [histories EXCEPT !.market =
                     AfterPush(@, SlicedPush(@.items, [i \in 1..n |-> @.arrived + i]), n)]
  /\ HistoryFrame

\* The other specifications keep these components as constructed
HarnessIdle ==
  /\ harness = [scenarios |-> <<>>, results |-> <<>>, thrownAt |-> 0,
                edgeCaseResults |-> 0, status |-> "running"]
  /\ instance = NoInstance
  /\ evaluation = NoEvaluation
  /\ histories = NoHistories
  /\ cciBot = NoCciBot

----------------------------------------------------------------------------
(* Specifications *)

RiskInit ==
  /\ RiskStart
  /\ now = 0
  /\ MomentumIdle
  /\ LedgerIdle
  /\ HarnessIdle
  /\ DcaIdle
  /\ StakingIdle

RiskNext ==
  \/ \E value \in RiskPerfValues : UpdatePerformanceHistory(value)
  \/ \E signal \in RiskSignals, positions \in RiskPositions,
        marketData \in RiskMarketData :
        ValidateSignalCall(signal, positions, marketData)

SpecRisk == RiskInit /\ [][RiskNext]_vars

\* The RiskManager with a performance history that is empty or holds ten
\* entries, asked for its metrics
MetricsInit ==
  /\ riskLimits = IdleRiskLimits
  /\ performanceHistory \in {<<>>} \cup TenPointHistories
  /\ marketHistoryLen = 0
  /\ validation = NoValidation
  /\ now = 0
  /\ MomentumIdle
  /\ LedgerIdle
  /\ HarnessIdle
  /\ DcaIdle
  /\ StakingIdle

MetricsNext ==
  \/ \E value \in RiskPerfValues : UpdatePerformanceHistory(value)
  \/ \E positions \in RiskPositions, marketData \in ShortSeries :
        CalculateRiskMetricsCall(positions, marketData)

SpecMetrics == MetricsInit /\ [][MetricsNext]_vars

\* One signal of testAlgorithm's loop, validated and traded
TradeNext ==
  \/ \E value \in RiskPerfValues : UpdatePerformanceHistory(value)
  \/ \E signal \in RiskSignals, positions \in RiskPositions,
        marketData \in RiskMarketData :
        TesterProcessSignal(signal, positions, marketData)

SpecTrade == RiskInit /\ [][TradeNext]_vars

\* Date.now() is far above the rebalance interval: the first call rebalances
MomentumInit ==
  /\ RiskIdle
  /\ now = RebalanceIntervalMin
  /\ MomentumIdle
  /\ LedgerIdle
  /\ HarnessIdle
  /\ DcaIdle
  /\ StakingIdle

MomentumNext ==
  \/ \E marketData \in SeqsOf(MomentumObs, 1, 2),
        obsTime \in { momentumCall.obsTime + d : d \in {0, 15} } :
        MomentumAnalyze(marketData, obsTime)
  \/ \E symbol \in MomentumTraded, action \in {"BUY", "SELL"},
        quantity \in MomentumQuantities, price \in MomentumPrices :
        MomentumUpdate(symbol, action, quantity, price)
  \/ \E minutes \in {15} : MomentumTick(minutes)

SpecMomentum == MomentumInit /\ [][MomentumNext]_vars

\* The bot is constructed at time 0 with the harness schedule
DcaInit ==
  /\ RiskIdle
  /\ now = 0
  /\ MomentumIdle
  /\ LedgerIdle
  /\ HarnessIdle
  /\ StakingIdle
  /\ dca = DcaNew
  /\ dcaTrades = 0
  /\ dcaCall = NoDcaCall
  /\ \E v \in DcaVolumes :
       dcaFeed = [count |-> 0, rapid |-> TRUE, signals |-> 0, volume |-> v,
                  purchases |-> 0, lastPurchase |-> NoTime]

DcaNext ==
  \/ \E marketData \in SeqsOf([symbol : DcaSymbols, price : DcaPrices,
                               volume : DcaVolumes, change24h : DcaChanges], 1, 1),
        spacing \in {1, 60} :
        DcaAnalyze(marketData, spacing)
  \/ \E symbol \in DcaSymbols, action \in {"BUY", "SELL"}, quantity \in {1000},
        price \in DcaPrices :
        DcaUpdate(symbol, action, quantity, price)
  \/ DcaTick

SpecDCA == DcaInit /\ [][DcaNext]_vars

\* The DCATradingBot fed observations of which some have a non-positive price
DcaInvalidNext ==
  \/ \E marketData \in SeqsOf([symbol : DcaSymbols,
                               price : DcaPrices \cup DcaInvalidPrices,
                               volume : DcaVolumes, change24h : {0}], 1, 1) :
        DcaAnalyze(marketData, 1)
  \/ \E symbol \in DcaSymbols, action \in {"BUY", "SELL"}, quantity \in {1000},
        price \in DcaPrices :
        DcaUpdate(symbol, action, quantity, price)
  \/ DcaTick

SpecDCAInvalid == DcaInit /\ [][DcaInvalidNext]_vars

\* The DCATradingBot constructed with LimitedSchedule; its signals are executed
DcaScheduleNext ==
  \/ \E marketData \in SeqsOf([symbol : DcaSymbols, price : DcaPrices,
                               volume : DcaVolumes, change24h : {0}], 1, 1) :
        DcaAnalyzeWith(marketData, 60, LimitedSchedule)
  \/ DcaApplySignal
  \/ DcaScheduleTick

SpecDCASchedule == DcaInit /\ [][DcaScheduleNext]_vars

\* Date.now() is far above the optimization period: the first call optimizes
StakingInit ==
  /\ RiskIdle
  /\ now = OptimizationPeriodMin + 1
  /\ MomentumIdle
  /\ LedgerIdle
  /\ HarnessIdle
  /\ DcaIdle
  /\ \E allocation \in StakingAllocations : staking = StakingNew(allocation)
  /\ stakingTrades = 0
  /\ stakingCall = NoStakingCall

StakingNext ==
  \/ \E marketData \in StakingMarketData : StakingAnalyze(marketData)
  \/ \E symbol \in StakingTraded, action \in {"BUY", "SELL"},
        amount \in StakingAmounts, platform \in {NoPlatform, "Kraken"} :
        StakingUpdate(symbol, action, amount, platform)
  \/ \E minutes \in {1441} : StakingTick(minutes)

SpecStaking == StakingInit /\ [][StakingNext]_vars

\* The observations of a run whose signals are executed: one symbol, whose
\* price may fall by a fifth
AppliedMarketData ==
  { << [symbol |-> "ETH", price |-> p, change24h |-> 0] >> : p \in {80, 100} }

\* The SmartStakingBot driven as by testAlgorithm: analyzeMarket, then the
\* signals executed in their order
StakingAppliedNext ==
  \/ \E marketData \in AppliedMarketData : StakingAnalyze(marketData)
  \/ StakingApplySignal
  \/ \E minutes \in {1441} : StakingTick(minutes)

SpecStakingApplied == StakingInit /\ [][StakingAppliedNext]_vars

LedgerInit ==
  /\ RiskIdle
  /\ now = OptimizationPeriodMin + 1
  /\ MomentumIdle
  /\ DcaIdle
  /\ StakingIdle
  /\ cci = CciNew
  /\ HarnessIdle
  /\ \E bot \in Range(Algorithms) : ledger = [bot |-> bot, count |-> 0, log |-> <<>>]

LedgerNext ==
  \/ \E symbol \in LedgerSymbols, action \in {"BUY", "SELL"},
        quantity \in LedgerQuantities, price \in LedgerPrices :
        LedgerTrade(symbol, action, quantity, price)
  \/ \E marketData \in { md \in StakingMarketData : Len(md) = 1 } :
        LedgerObserve(marketData)

SpecLedger == LedgerInit /\ [][LedgerNext]_vars

\* The tester is constructed on a new RiskManager, and its bots long after
\* time 0
HarnessInit ==
  /\ RiskIdle
  /\ now = OptimizationPeriodMin + 1
  /\ MomentumIdle
  /\ DcaIdle
  /\ StakingIdle
  /\ LedgerIdle
  /\ \E scenarios \in [1..ScenarioCount -> Scenarios] :
       harness = [scenarios |-> scenarios, results |-> <<>>, thrownAt |-> 0,
                  edgeCaseResults |-> 0, status |-> "running"]
  /\ instance = NoInstance
  /\ evaluation = NoEvaluation
  /\ histories = NoHistories
  /\ cciBot = NoCciBot

HarnessNext ==
  \/ RunNextPair
  \/ RunNextPairThrows
  \/ RunEdgeCaseTests
  \/ RunReturn

SpecHarness == HarnessInit /\ [][HarnessNext]_vars

\* An evaluator is constructed with some config and then analyses observations
ConstructInit ==
  /\ RiskIdle
  /\ now = OptimizationPeriodMin + 1
  /\ MomentumIdle
  /\ DcaIdle
  /\ StakingIdle
  /\ LedgerIdle
  /\ HarnessIdle

ConstructNext ==
  \/ \E algorithm \in Range(Algorithms), config \in Configs : Construct(algorithm, config)
  \/ \E marketData \in SeqsOf(HarnessObs, 1, 1) : InstanceAnalyze(marketData)

SpecConstruct == ConstructInit /\ [][ConstructNext]_vars

\* Each history receives entries, from empty or from just below its cut
HistoryInit ==
  /\ RiskIdle
  /\ now = 0
  /\ MomentumIdle
  /\ DcaIdle
  /\ StakingIdle
  /\ LedgerIdle
  /\ harness = [scenarios |-> <<>>, results |-> <<>>, thrownAt |-> 0,
                edgeCaseResults |-> 0, status |-> "running"]
  /\ instance = NoInstance
  /\ evaluation = NoEvaluation
  /\ histories \in {NoHistories, HistoriesNearCap}
  /\ cciBot = NoCciBot

HistoryNext ==
  \/ MomentumObserve
  \/ CciObserve
  \/ DcaObserve
  \/ PerformanceObserve
  \/ \E n \in 1..2 : MarketObserve(n)

SpecHistory == HistoryInit /\ [][HistoryNext]_vars

\* evaluateTestResult applied to one input
EvaluateInit ==
  /\ RiskIdle
  /\ now = 0
  /\ MomentumIdle
  /\ DcaIdle
  /\ StakingIdle
  /\ LedgerIdle
  /\ harness = [scenarios |-> <<>>, results |-> <<>>, thrownAt |-> 0,
                edgeCaseResults |-> 0, status |-> "running"]
  /\ instance = NoInstance
  /\ histories = NoHistories
  /\ cciBot = NoCciBot
  /\ \E name \in ScenarioNames, performance \in PerformanceInputs,
        riskMetrics \in RiskMetricsInputs :
       evaluation = [NoEvaluation EXCEPT !.scenario = name, !.performance = performance,
                                         !.riskMetrics = riskMetrics]

EvaluateNext == Evaluate

SpecEvaluate == EvaluateInit /\ [][EvaluateNext]_vars

\* C16 (as claimed): analyzeMarket of the MomentumTradingBot returns no signal
\* for a symbol whose price history has fewer than 10 observations.
C16_NoSignalOnShortHistory ==
  momentumCall.called =>
    \A k \in DOMAIN momentumCall.signals :
      momentum.historyLen[momentumCall.signals[k].symbol] >= MomentumMinHistory

\* The CCIMarketBot one observation short of its first CCI value, under
\* analyzeMarket and updatePosition calls
CciBotInit ==
  /\ RiskIdle
  /\ now = 0
  /\ MomentumIdle
  /\ DcaIdle
  /\ StakingIdle
  /\ LedgerIdle
  /\ harness = [scenarios |-> <<>>, results |-> <<>>, thrownAt |-> 0,
                edgeCaseResults |-> 0, status |-> "running"]
  /\ instance = NoInstance
  /\ evaluation = NoEvaluation
  /\ histories = NoHistories
  /\ cciBot = [NoCciBot EXCEPT !.history = FlatHistory]

CciBotNext ==
  \/ \E price \in CciBotPrices, volume \in CciBotVolumes : CciBotAnalyze(price, volume)
  \/ \E action \in {"BUY", "SELL"}, price \in CciBotPrices : CciBotTrade(action, price)

SpecCCI == CciBotInit /\ [][CciBotNext]_vars

----------------------------------------------------------------------------
(* Claims about the CCIMarketBot *)

\* The evaluation of the held symbol in the last analyzeMarket call: the symbol
\* had a position, a CCI value was computed and the volume was confirmed
HeldEvaluation ==
  /\ cciBot.call.called
  /\ cciBot.call.ready
  /\ cciBot.call.volumeConfirmed
  /\ MapHas(cciBot.call.positionsBefore, CciBotSymbol)

\* C23: for a held symbol with volume confirmation an evaluation returns no BUY
\* and at most one SELL: the stop-loss SELL with confidence 100 whenever the
\* position's pnlPercentage is at or below -stopLoss, otherwise the take-profit
\* SELL with confidence 90 whenever it is at or above takeProfit, otherwise at
\* most an overbought SELL with confidence of 65 or more
C23_OneSellInPriorityOrder ==
  HeldEvaluation =>
    LET position == MapGet(cciBot.call.positionsBefore, CciBotSymbol)
        signals == cciBot.call.signals
    IN /\ Len(signals) <= 1
       /\ \A i \in DOMAIN signals : signals[i].action = "SELL"
       /\ IF StoredLossAtLeast(position, HarnessConfig.stopLoss)
          THEN Len(signals) = 1 /\ signals[1].kind = "stop-loss"
                 /\ signals[1].confidence = 100
          ELSE IF StoredGainAtLeast(position, HarnessConfig.takeProfit)
          THEN Len(signals) = 1 /\ signals[1].kind = "take-profit"
                 /\ signals[1].confidence = 90
          ELSE \A i \in DOMAIN signals :
                 signals[i].kind = "overbought" /\ signals[i].confidence >= 65

\* A held symbol on confirmed volume whose stored loss reached the stop-loss:
\* the evaluation returned the stop-loss SELL
C23_Witness ==
  /\ HeldEvaluation
  /\ Len(cciBot.call.signals) = 1
  /\ cciBot.call.signals[1].kind = "stop-loss"
  /\ cciBot.call.price = 4

\* C29: an evaluation of a held symbol on confirmed volume whose observed price
\* is stopLoss percent or more below the entry price returns the stop-loss SELL
\* in that same call
C29_StopLossOnObservedPrice ==
  HeldEvaluation =>
    LET position == MapGet(cciBot.call.positionsBefore, CciBotSymbol)
    IN StoredLossAtLeast([position EXCEPT !.currentPrice = cciBot.call.price],
                         HarnessConfig.stopLoss)
         => \E i \in DOMAIN cciBot.call.signals :
              cciBot.call.signals[i].kind = "stop-loss"

\* The RiskManager under performance updates and one emergencyRiskManagement call
EmergencyInit ==
  /\ riskLimits \in EmergencyLimitsSet
  /\ performanceHistory \in EmergencyHistories
  /\ marketHistoryLen = 0
  /\ validation = NoValidation
  /\ now = 0
  /\ MomentumIdle
  /\ LedgerIdle
  /\ HarnessIdle
  /\ DcaIdle
  /\ StakingIdle

EmergencyNext ==
  \/ \E value \in RiskPerfValues : UpdatePerformanceHistory(value)
  \/ \E positions \in RiskPositions, marketData \in EmergencySeries :
        EmergencyCall(positions, marketData)

SpecEmergency == EmergencyInit /\ [][EmergencyNext]_vars

----------------------------------------------------------------------------
(* Claims about emergencyRiskManagement *)

\* The quantity, in tenths, a call's SELL signals ask of the positions of a symbol
QuantitySoldTenths(signals, symbol) ==
  SumSeq([i \in DOMAIN signals |->
            IF signals[i].symbol = symbol THEN signals[i].quantityTenths ELSE 0])

\* C25: the SELL quantities one emergencyRiskManagement call emits for a symbol
\* sum to at most the quantity held of it
C25_EmergencySellsWithinHolding ==
  (validation.called /\ "signals" \in DOMAIN validation) =>
    \A symbol \in RiskSymbols :
       QuantitySoldTenths(validation.signals, symbol)
         <= 10 * SumSeq([i \in DOMAIN validation.positions |->
                           IF validation.positions[i].symbol = symbol
                           THEN validation.positions[i].quantity ELSE 0])

\* C27: a stop-loss SELL is emitted only for a position at a loss of stopLoss
\* percent or more; a position at a gain never produces one
C27_StopLossOnlyOnLoss ==
  momentumCall.called =>
    \A k \in DOMAIN momentumCall.signals :
      momentumCall.signals[k].kind = "stop-loss" =>
        LET position == MapGet(momentumCall.positionsBefore, momentumCall.signals[k].symbol)
        IN /\ PnlDelta(position) <= 0
           /\ 100 * (0 - PnlDelta(position)) >= HarnessConfig.stopLoss * position.entryNum

\* The signals of the rebalancing among the signals of the last call
RebalancingSignals ==
  SelectSeq(momentumCall.signals, LAMBDA signal : signal.kind \in {"enter", "resize", "leave"})

\* C28: one evaluation emits at most one rebalancing signal per symbol, and BUYs
\* for at most maxPositions distinct symbols, all enabled
C28_OneRebalancingSignalPerSymbol ==
  momentumCall.called =>
    /\ \A s \in MomentumSymbols :
         Cardinality({ k \in DOMAIN RebalancingSignals : RebalancingSignals[k].symbol = s }) <= 1
    /\ LET bought == { RebalancingSignals[k].symbol :
                         k \in { j \in DOMAIN RebalancingSignals :
                                   RebalancingSignals[j].action = "BUY" } }
       IN /\ Cardinality(bought) <= HarnessConfig.maxPositions
          /\ bought \subseteq Range(HarnessConfig.enabledAssets)

\* C30: with every BUY applied through updatePosition(symbol, action, quantity,
\* price), an optimization returns no new-position BUY for a symbol whose
\* allocation was applied, and no staking position holds more than 30% of
\* config.allocation
C30_AppliedAllocationFound ==
  /\ stakingCall.called =>
       \A k \in DOMAIN stakingCall.signals :
         stakingCall.signals[k].kind = "allocate" =>
           stakingCall.signals[k].symbol \notin stakingCall.activeBefore
  /\ \A i \in DOMAIN staking.positions :
       10 * staking.positions[i].stakedAmount <= 3 * 10 * staking.allocation

----------------------------------------------------------------------------
(* Claims about the RiskManager *)

\* C2 (as claimed): an adjustedQuantity that validateSignal returns is strictly
\* less than the quantity of the signal.
C2_AdjustedBelowOriginal ==
  (validation.called /\ validation.result.hasAdjusted)
    => DoubleLessInt(validation.result.adjusted, validation.signal.quantity)

\* C3 (as claimed): a signal that fails a reject-type check is not approved,
\* whether or not it was resized.
C3_RejectAlwaysRejects ==
  (validation.called /\ validation.failed # {}) => ~validation.result.approved

(* Claims about the MomentumTradingBot *)

\* C7 (as claimed): every analyzeMarket call returns the stop-loss SELL of every
\* position whose stop-loss condition holds at the call and the take-profit SELL
\* of every position whose take-profit condition holds, also within the
\* rebalance interval.
C7_ExitChecksEveryCall ==
  momentumCall.called =>
    /\ \A s \in momentumCall.stopLossDue :
         \E i \in DOMAIN momentumCall.signals :
           /\ momentumCall.signals[i].symbol = s
           /\ momentumCall.signals[i].kind = "stop-loss"
    /\ \A s \in momentumCall.takeProfitDue :
         \E i \in DOMAIN momentumCall.signals :
           /\ momentumCall.signals[i].symbol = s
           /\ momentumCall.signals[i].kind = "take-profit"

\* C8 (as claimed): a call rebalances exactly when its observation time is at
\* least 15 minutes after the observation time of the last rebalance, whatever
\* the wall clock says.
C8_RateLimitInObservationTime ==
  (momentumCall.called /\ momentumCall.prevRebalanceObsTime # NoTime) =>
    (momentumCall.rebalanced
       <=> momentumCall.obsTime - momentumCall.prevRebalanceObsTime
             >= RebalanceIntervalMin)

(* Claims about the DCATradingBot *)

\* The rapid-signal scenario of the harness: its length, and the number of
\* signals its test tolerates
ScenarioObservations == 100

SignalLimit == 10

\* C9 (as claimed): while at most 100 observations of one symbol, 1 second
\* apart, have been fed, the evaluator has emitted at most 10 signals in all.
C9_AtMostTenSignals ==
  (dcaFeed.rapid /\ dcaFeed.count <= ScenarioObservations)
    => dcaFeed.signals <= SignalLimit

\* C10 (as claimed): a call whose observations all have volume 0 returns no
\* signal.
C10_ZeroVolumeNoSignals ==
  (dcaCall.called /\ dcaCall.zeroVolume) => dcaCall.signals = <<>>

\* C11 (as claimed): a call whose observations have a non-positive price or a
\* negative volume returns no signal and appends nothing to the histories.
C11_InvalidObservationRejected ==
  (dcaCall.called /\ dcaCall.invalid) =>
    /\ dcaCall.signals = <<>>
    /\ dca.historyLen = dcaCall.historyLenBefore

\* A scheduled BUY among the signals of the last call
ScheduledBuyReturned ==
  \E k \in DOMAIN dcaCall.signals :
    dcaCall.signals[k].action = "BUY" /\ dcaCall.signals[k].kind = "purchase"

\* C19 (as claimed): after the first purchase of a symbol, analyzeMarket
\* returns a scheduled BUY only when at least one interval has passed since
\* the last purchase applied, also when a SELL has closed the position since.
C19_ScheduledBuyOnlyWhenDue ==
  (dcaCall.called /\ ScheduledBuyReturned /\ dcaCall.lastPurchaseBefore # NoTime)
    => dcaCall.time - dcaCall.lastPurchaseBefore >= DcaIntervalMin(LimitedSchedule)

\* C20 (as claimed): with schedule.maxPurchases set, the purchases applied over
\* the bot's lifetime never exceed it, and no scheduled BUY is returned before
\* startDate or after endDate.
C20_PurchasesWithinSchedule ==
  /\ dcaFeed.purchases <= LimitedSchedule.maxPurchases
  /\ (dcaCall.called /\ ScheduledBuyReturned) =>
       /\ dcaCall.time >= LimitedSchedule.startDate
       /\ dcaCall.time <= LimitedSchedule.endDate

(* Claims about the SmartStakingBot *)

C4_SignalsWellFormed ==
  \A i \in DOMAIN stakingCall.signals :
    /\ stakingCall.signals[i].price > 0
    /\ stakingCall.signals[i].confidence >= 0
    /\ stakingCall.signals[i].confidence <= 100

\* The symbols staked before the last call whose observed price is more than
\* config.stopLoss percent below the price they were staked at
LosingStakes ==
  { s \in stakingCall.activeBefore :
      /\ stakingCall.entryPrice[s] > 0
      /\ stakingCall.observed[s] > 0
      /\ 100 * (stakingCall.entryPrice[s] - stakingCall.observed[s])
           > HarnessConfig.stopLoss * stakingCall.entryPrice[s] }

\* C21 (as claimed): analyzeMarket returns an emergency SELL of confidence 100
\* for every ACTIVE staking position whose loss from the staked price to the
\* observed price exceeds config.stopLoss percent.
C21_EmergencyExitOnLoss ==
  stakingCall.called =>
    \A s \in LosingStakes :
      \E k \in DOMAIN stakingCall.signals :
        /\ stakingCall.signals[k].symbol = s
        /\ stakingCall.signals[k].action = "SELL"
        /\ stakingCall.signals[k].kind = "emergency"
        /\ stakingCall.signals[k].confidence = 100

(* Claims about the risk metrics *)

\* C22 (as claimed): calculateRiskMetrics never divides by zero: maxDrawdown,
\* currentDrawdown, CVaR95 and volatility are numbers for every performance
\* history and every positions and observations input.
C22_MetricsDefined ==
  validation.called =>
    /\ ~validation.metrics.maxDrawdown.nan
    /\ ~validation.metrics.currentDrawdown.nan
    /\ ~validation.metrics.volatilityUndefined
    /\ validation.metrics.historyLen >= ConditionMinPoints =>
         validation.metrics.cvarTailLength > 0

\* C24 (as claimed): the currentDrawdown of calculateRiskMetrics is a
\* percentage from 0 to 100, 0 when the current value is above every recorded
\* value.
C24_CurrentDrawdownInRange ==
  (validation.called /\ ~validation.metrics.currentDrawdown.nan) =>
    /\ validation.metrics.currentDrawdown.num >= 0
    /\ validation.metrics.currentDrawdown.num
         <= 100 * validation.metrics.currentDrawdown.den

(* Claims about the position ledgers *)

\* C5: on each bot's ledger, updatePosition(symbol, BUY, q, p) made with no
\* position for the symbol and followed by updatePosition(symbol, SELL, q, p)
\* leaves no position for the symbol, the first time and every later time.
C5_RoundTripCloses ==
  (/\ Len(ledger.log) = 2
   /\ ledger.log[1].action = "BUY" /\ ~ledger.log[1].held
   /\ ledger.log[2].action = "SELL"
   /\ ledger.log[2].symbol = ledger.log[1].symbol
   /\ ledger.log[2].quantity = ledger.log[1].quantity
   /\ ledger.log[2].price = ledger.log[1].price)
  => ~LedgerHolds(ledger.log[2].symbol)

\* C5 witness: the second round trip of a ledger that closes on the remaining
\* quantity has just been made
C5_Witness ==
  /\ ledger.bot \in {"momentum", "cci"}
  /\ ledger.count = 4
  /\ ledger.log[1].action = "BUY" /\ ~ledger.log[1].held
  /\ ledger.log[2].action = "SELL"
  /\ ledger.log[2].quantity = ledger.log[1].quantity
  /\ ledger.log[2].price = ledger.log[1].price
  /\ ~LedgerHolds(ledger.log[2].symbol)

\* C17 (as claimed): on each bot's ledger, a SELL of q on a position opened
\* with Q, with Q - q above the closing epsilon, leaves the position open.
C17_PartialSellKeepsPosition ==
  (/\ Len(ledger.log) = 2
   /\ ledger.log[1].action = "BUY" /\ ~ledger.log[1].held
   /\ ledger.log[2].action = "SELL" /\ ledger.log[2].held
   /\ ledger.log[2].symbol = ledger.log[1].symbol
   /\ ledger.log[1].quantity - ledger.log[2].quantity > QtyEpsilonMilli)
  => LedgerHolds(ledger.log[2].symbol)

(* Claims about the histories *)

\* The entries of h are its most recent arrivals, in the order of arrival
MostRecentInOrder(h) ==
  \A i \in DOMAIN h.items : h.items[i] = h.arrived - Len(h.items) + i

C6_ResultsIndependentOfOrder ==
  \A n \in DOMAIN harness.results :
    harness.results[n] =
      TestAlgorithm(PairAlgorithm(n), harness.scenarios[PairScenario(n)],
                    riskLimits, <<>>, 0, now).result

\* C13 (as claimed): a strategy that throws during one pair is recorded as a
\* failure of that pair and the run goes on: runAlgorithmTests is not left by
\* the exception, and the pair has its entry in the results.
C13_ThrowIsContained ==
  harness.thrownAt > 0 =>
    /\ harness.status # "rejected"
    /\ Len(harness.results) >= harness.thrownAt

\* C15 (as claimed): a signal approved with an adjustedQuantity is traded with
\* that adjustedQuantity, and a rejected signal is not traded.
C15_AdjustedQuantityApplied ==
  validation.called =>
    /\ (validation.result.approved /\ validation.result.hasAdjusted) =>
         /\ Len(validation.trades) = 1
         /\ validation.trades[1].quantity = DoubleTrunc(validation.result.adjusted)
    /\ ~validation.result.approved => validation.trades = <<>>

\* C14: evaluateTestResult returns passed = true exactly when the returned
\* score is at least 60 and there are at most 2 issues, and the returned score
\* lies in 0..100.
C14_PassedIffScoreAndIssues ==
  evaluation.done =>
    /\ evaluation.result.passed <=>
         (evaluation.result.score >= 60 /\ Len(evaluation.result.issues) <= 2)
    /\ evaluation.result.score \in 0..100

\* An evaluation whose score alone would pass and whose issues fail it
C14_Witness ==
  /\ evaluation.done
  /\ evaluation.result.score >= 60
  /\ Len(evaluation.result.issues) > 2
  /\ ~evaluation.result.passed

\* C26: a simulation in which no signal was accepted ends with the portfolio
\* value 10000 it started with and a totalReturn of 0
C26_UntradedCapitalKept ==
  \A n \in DOMAIN harness.results :
    harness.results[n].trades = <<>> =>
      /\ harness.results[n].portfolioValue = StartingValue
      /\ harness.results[n].totalReturn = Percent(FALSE, 0, 1)

----------------------------------------------------------------------------
(* Claims about construction *)

\* The config checks the claim lists
ConfigValid(config) ==
  /\ config.allocation > 0
  /\ config.stopLoss > 0
  /\ config.stopLoss <= 100
  /\ config.maxPositions >= 1
  /\ config.enabledAssets # <<>>

\* C12 (as claimed): an evaluator that has reached analyzeMarket was
\* constructed with a valid config, because every constructor rejects an
\* allocation <= 0, a stopLoss <= 0 or > 100, a maxPositions < 1 and an
\* empty enabledAssets.
C12_NoInvalidConfigAnalyzes ==
  instance.analyzed => ConfigValid(instance.config)

============================================================================
